---- MODULE Spec2Model ----
(***************************************************************************)
(* hunt: concurrent search of a directory tree for entries whose name      *)
(* matches a query.                                                        *)
(*                                                                         *)
(*   - the match predicate            src/src/search.rs   is_result        *)
(*   - the worker pool                src/src/threadpool.rs                *)
(*   - the result collector           src/src/searchresult.rs              *)
(*   - the scoped-task search engine  src/src/search.rs   Search::search   *)
(*                                                                         *)
(* File names are sequences of bytes, a path is the sequence of its        *)
(* components.                                                             *)
(***************************************************************************)
EXTENDS Integers, Sequences, FiniteSets, TLC

(***************************************************************************)
(* Bounds of the model.                                                    *)
(***************************************************************************)
\* largest number of worker threads of the pool (available_parallelism)
MaxThreads == 2
\* largest number of roots the caller sends through Pool::send
MaxRoots == 2

(***************************************************************************)
(* Byte strings.                                                           *)
(***************************************************************************)
\* u8::to_ascii_lowercase: 'A'..'Z' (65..90) become 'a'..'z', the rest is kept
to_ascii_lowercase_byte(b) == IF b >= 65 /\ b <= 90 THEN b + 32 ELSE b

\* str::to_ascii_lowercase
to_ascii_lowercase(s) == [i \in 1..Len(s) |-> to_ascii_lowercase_byte(s[i])]

\* str::starts_with
starts_with(s, p) == Len(p) <= Len(s) /\ SubSeq(s, 1, Len(p)) = p

\* str::ends_with
ends_with(s, p) == Len(p) <= Len(s) /\ SubSeq(s, Len(s) - Len(p) + 1, Len(s)) = p

\* the offsets (0-based) at which p occurs in s
Occurrences(s, p) ==
  {i \in 0..(Len(s) - Len(p)) : SubSeq(s, i + 1, i + Len(p)) = p}

\* a find that never finds
find_never(s, p) == -1

\* memmem Finder::find / str::find: the first offset of p in s, -1 for None
find(s, p) ==
  IF Occurrences(s, p) = {} THEN -1
  ELSE CHOOSE i \in Occurrences(s, p) : \A j \in Occurrences(s, p) : i <= j

\* char::is_alphabetic && char::is_uppercase on the bytes of the model
is_uppercase(b) == b >= 65 /\ b <= 90

(***************************************************************************)
(* The file system: a finite tree of entries.  parent = 0 marks a          *)
(* directory that is no entry of another directory of the model (a         *)
(* possible search root).                                                  *)
(*                                                                         *)
(*   1  r/             4  r/.h/           7  r/d/ab/Ab                     *)
(*   2  r/d/           5  r/d/ab/         8  r/.h/a                        *)
(*   3  r/a            6  r/d/ab/a        9  e/       (empty)              *)
(*                                                                         *)
(*  10  /             12  /proc/a/       14  /a   (file-type probe fails)  *)
(*  11  /proc/        13  /u/  (cannot be read)       15  /proc/a/a        *)
(***************************************************************************)
Entries ==
  << [parent |-> 0, name |-> <<114>>,     kind |-> "dir",  probe |-> TRUE, readable |-> TRUE],
     [parent |-> 1, name |-> <<100>>,     kind |-> "dir",  probe |-> TRUE, readable |-> TRUE],
     [parent |-> 1, name |-> <<97>>,      kind |-> "file", probe |-> TRUE, readable |-> TRUE],
     [parent |-> 1, name |-> <<46, 104>>, kind |-> "dir",  probe |-> TRUE, readable |-> TRUE],
     [parent |-> 2, name |-> <<97, 98>>,  kind |-> "dir",  probe |-> TRUE, readable |-> TRUE],
     [parent |-> 5, name |-> <<97>>,      kind |-> "file", probe |-> TRUE, readable |-> TRUE],
     [parent |-> 5, name |-> <<65, 98>>,  kind |-> "file", probe |-> TRUE, readable |-> TRUE],
     [parent |-> 4, name |-> <<97>>,      kind |-> "file", probe |-> TRUE, readable |-> TRUE],
     [parent |-> 0, name |-> <<101>>,     kind |-> "dir",  probe |-> TRUE, readable |-> TRUE],
     [parent |-> 0, name |-> <<47>>,      kind |-> "dir",  probe |-> TRUE, readable |-> TRUE],
     [parent |-> 10, name |-> <<112, 114, 111, 99>>,
                                          kind |-> "dir",  probe |-> TRUE, readable |-> TRUE],
     [parent |-> 11, name |-> <<97>>,     kind |-> "dir",  probe |-> TRUE, readable |-> TRUE],
     [parent |-> 10, name |-> <<117>>,    kind |-> "dir",  probe |-> TRUE, readable |-> FALSE],
     [parent |-> 10, name |-> <<97>>,     kind |-> "dir",  probe |-> FALSE, readable |-> TRUE],
     [parent |-> 12, name |-> <<97>>,     kind |-> "file", probe |-> TRUE, readable |-> TRUE] >>

EntryIds == 1..Len(Entries)

\* the directories a search can start from
RootDirs == {e \in EntryIds : Entries[e].parent = 0}

\* DirEntry::path: the path of the directory joined with the entry's name
RECURSIVE entry_path(_)
entry_path(e) ==
  IF Entries[e].parent = 0 THEN <<Entries[e].name>>
  ELSE Append(entry_path(Entries[e].parent), Entries[e].name)

\* std::fs::read_dir(path).flatten(): the entries of a directory; an error
\* (unreadable directory) is reported as "err"
read_dir(d) ==
  IF Entries[d].kind = "dir" /\ Entries[d].readable
  THEN [ok |-> TRUE, entries |-> {e \in EntryIds : Entries[e].parent = d}]
  ELSE [ok |-> FALSE, entries |-> {}]

\* the hard-coded ignore paths of Search::new, in the order of the source
\* ("/" is the first component of an absolute path)
hardcoded_ignore ==
  <<
     << <<47>>, <<112, 114, 111, 99>> >>,  \* /proc
     << <<47>>, <<114, 111, 111, 116>> >>,  \* /root
     << <<47>>, <<98, 111, 111, 116>> >>,  \* /boot
     << <<47>>, <<100, 101, 118>> >>,  \* /dev
     << <<47>>, <<108, 105, 98>> >>,  \* /lib
     << <<47>>, <<108, 105, 98, 54, 52>> >>,  \* /lib64
     << <<47>>, <<108, 111, 115, 116, 43, 102, 111, 117, 110, 100>> >>,  \* /lost+found
     << <<47>>, <<114, 117, 110>> >>,  \* /run
     << <<47>>, <<115, 98, 105, 110>> >>,  \* /sbin
     << <<47>>, <<115, 121, 115>> >>,  \* /sys
     << <<47>>, <<116, 109, 112>> >>,  \* /tmp
     << <<47>>, <<118, 97, 114>>, <<116, 109, 112>> >>,  \* /var/tmp
     << <<47>>, <<118, 97, 114>>, <<108, 105, 98>> >>,  \* /var/lib
     << <<47>>, <<118, 97, 114>>, <<108, 111, 103>> >>,  \* /var/log
     << <<47>>, <<118, 97, 114>>, <<100, 98>> >>,  \* /var/db
     << <<47>>, <<118, 97, 114>>, <<99, 97, 99, 104, 101>> >>,  \* /var/cache
     << <<47>>, <<101, 116, 99>>, <<112, 97, 99, 109, 97, 110, 46, 100>> >>,  \* /etc/pacman.d
     << <<47>>, <<101, 116, 99>>, <<115, 117, 100, 111, 101, 114, 115, 46, 100>> >>,  \* /etc/sudoers.d
     << <<47>>, <<101, 116, 99>>, <<97, 117, 100, 105, 116>> >>   \* /etc/audit
  >>

(***************************************************************************)
(* Ordering of paths (Ord for PathBuf: component by component, a component *)
(* byte by byte) and the binary search of the explicit ignore list.        *)
(***************************************************************************)
\* Ord for byte strings: -1 Less, 0 Equal, 1 Greater
RECURSIVE bytes_cmp(_, _)
bytes_cmp(a, b) ==
  IF a = <<>> /\ b = <<>> THEN 0
  ELSE IF a = <<>> THEN -1
  ELSE IF b = <<>> THEN 1
  ELSE IF Head(a) < Head(b) THEN -1
  ELSE IF Head(a) > Head(b) THEN 1
  ELSE bytes_cmp(Tail(a), Tail(b))

\* Ord for paths: lexicographic over the components
RECURSIVE path_cmp(_, _)
path_cmp(p, q) ==
  IF p = <<>> /\ q = <<>> THEN 0
  ELSE IF p = <<>> THEN -1
  ELSE IF q = <<>> THEN 1
  ELSE IF bytes_cmp(Head(p), Head(q)) # 0 THEN bytes_cmp(Head(p), Head(q))
  ELSE path_cmp(Tail(p), Tail(q))

\* slice::binary_search: the search window [left, right) is halved on the
\* comparison of the middle element with the target; TRUE iff it returns Ok
RECURSIVE binary_search_from(_, _, _, _)
binary_search_from(v, x, left, right) ==
  IF left >= right THEN FALSE
  ELSE LET mid == left + ((right - left) \div 2)
           c   == path_cmp(v[mid + 1], x)
       IN  IF c = 0 THEN TRUE
           ELSE IF c < 0 THEN binary_search_from(v, x, mid + 1, right)
           ELSE binary_search_from(v, x, left, mid)

binary_search(v, x) == binary_search_from(v, x, 0, Len(v))

(***************************************************************************)
(* The compile-time sort of structs.rs: lt compares two strings byte by    *)
(* byte, sorted runs two nested loops over the array and swaps array[i]    *)
(* with array[j] whenever lt(array[i], array[j]).  Indices are 0-based as  *)
(* in the source.                                                          *)
(***************************************************************************)
\* lt that decides on the lengths alone once one string is a prefix of the
\* other, whichever is the shorter
lt_prefix_either(lhs, rhs) ==
  LET smallest == IF Len(lhs) < Len(rhs) THEN Len(lhs) ELSE Len(rhs)
      differ   == {i \in 1..smallest : lhs[i] # rhs[i]}
  IN  IF differ = {} THEN TRUE
      ELSE LET i == CHOOSE k \in differ : \A m \in differ : k <= m
           IN  lhs[i] < rhs[i]

\* the loop of lt from index i on
RECURSIVE lt_from(_, _, _, _)
lt_from(lhs, rhs, smallest, i) ==
  IF i < smallest
  THEN IF lhs[i + 1] < rhs[i + 1] THEN TRUE
       ELSE IF lhs[i + 1] > rhs[i + 1] THEN FALSE
       ELSE lt_from(lhs, rhs, smallest, i + 1)
  ELSE Len(lhs) = smallest

lt(lhs, rhs) ==
  LET smallest == IF Len(lhs) < Len(rhs) THEN Len(lhs) ELSE Len(rhs)
  IN  lt_from(lhs, rhs, smallest, 0)

\* the two loops of sorted from the indices (i, j) on
RECURSIVE sorted_from(_, _, _)
sorted_from(array, i, j) ==
  IF i >= Len(array) THEN array
  ELSE IF j >= Len(array) THEN sorted_from(array, i + 1, 0)
  ELSE IF lt(array[i + 1], array[j + 1])
       THEN sorted_from([array EXCEPT ![i + 1] = array[j + 1],
                                      ![j + 1] = array[i + 1]], i, j + 1)
       ELSE sorted_from(array, i, j + 1)

sorted(array) == sorted_from(array, 0, 0)

(***************************************************************************)
(* The configuration: Cli::run builds the Search value from the arguments. *)
(***************************************************************************)
\* Search::new: the output mode of the count of -s flags
OutputOf(simple) ==
  IF simple = 0 THEN "Normal" ELSE IF simple = 1 THEN "Simple" ELSE "SuperSimple"

\* std::env::current_dir / Path::new("."): the directory the process runs in
CurrentDir == 1

\* PathBuf::from(n) for a name given in place of a directory: "." is the
\* current directory, another name the directory of the model with that name,
\* 0 when there is none
dir_of_name(n) ==
  IF n = <<46>> THEN CurrentDir
  ELSE IF \E e \in EntryIds : Entries[e].parent = 0 /\ Entries[e].name = n
  THEN CHOOSE e \in EntryIds : Entries[e].parent = 0 /\ Entries[e].name = n
  ELSE 0

\* the absolute path of the directory that holds the relative roots r and e:
\* "/x", which no search of the model walks
ParentOfRoots == << <<47>>, <<120>> >>

\* Path::canonicalize: the absolute path of the entry that the path names,
\* the path as given when it names no entry (the Err that Cli::run ignores)
canonicalize(p) ==
  IF \E e \in EntryIds : entry_path(e) = p
  THEN IF Head(p) = <<47>> THEN p ELSE ParentOfRoots \o p
  ELSE p

\* Cli::run: a name that is "." or holds a path separator is a directory,
\* and the query is then empty; the search is case sensitive when asked for or
\* when the query holds an uppercase letter; otherwise the prefix and the
\* suffix are folded to lower case; every ignore path that can be
\* canonicalized is, and the list keeps the order given
CliRun(cli) ==
  LET is_path == cli.name = <<46>> \/ (\E i \in 1..Len(cli.name) : cli.name[i] = 47)
      name == IF is_path THEN <<>> ELSE cli.name
      search_in_dirs == IF is_path THEN <<dir_of_name(cli.name)>> \o cli.search_in_dirs
                        ELSE cli.search_in_dirs
      case_sensitive ==
        cli.case_sensitive \/ (\E i \in 1..Len(name) : is_uppercase(name[i]))
  IN  [first          |-> cli.first,
       exact          |-> cli.exact,
       case_sensitive |-> case_sensitive,
       hidden         |-> cli.hidden,
       output         |-> OutputOf(cli.simple),
       name           |-> name,
       starts         |-> IF case_sensitive THEN cli.starts_with
                          ELSE to_ascii_lowercase(cli.starts_with),
       ends           |-> IF case_sensitive THEN cli.ends_with
                          ELSE to_ascii_lowercase(cli.ends_with),
       ftype          |-> cli.file_type,
       explicit_ignore |->
         [i \in 1..Len(cli.ignore_dirs) |-> canonicalize(cli.ignore_dirs[i])],
       limit          |-> search_in_dirs # <<>>,
       dirs           |-> search_in_dirs]

(***************************************************************************)
(* The match predicate.                                                    *)
(***************************************************************************)
\* file_name (unix): the bytes after the last '/', the last component
file_name(path) == path[Len(path)]

\* is_hidden (unix): the base name starts with '.'
\* an is_hidden that takes no entry for hidden
is_hidden_never(path) == FALSE

\* an is_hidden that takes every entry for hidden
is_hidden_always(path) == TRUE

is_hidden(path) == Len(file_name(path)) > 0 /\ file_name(path)[1] = 46

\* is_result: skip = TRUE is the None result (the entry is passed over);
\* otherwise result is "exact", "contains" or "none" and recurse tells
\* whether the entry's path is returned for expansion
is_result(e, search) ==
  LET path   == entry_path(e)
      is_dir == Entries[e].probe /\ Entries[e].kind = "dir"
      ftype  == CASE search.ftype = "All"  -> TRUE
                  [] search.ftype = "Dir"  -> is_dir
                  [] search.ftype = "File" -> ~is_dir
      fname  == file_name(path)
      sname  == IF search.case_sensitive THEN fname ELSE to_ascii_lowercase(fname)
      starts == search.starts = <<>> \/ starts_with(sname, search.starts)
      ends   == search.ends = <<>> \/ ends_with(sname, search.ends)
      contains == find(sname, search.name) # -1
      equals == contains /\ Len(sname) = Len(search.name)
  IN  IF binary_search(search.explicit_ignore, path)
        THEN [skip |-> TRUE, result |-> "none", recurse |-> FALSE]
      ELSE IF ~search.hidden /\ is_hidden(path)
        THEN [skip |-> TRUE, result |-> "none", recurse |-> FALSE]
      ELSE IF ftype /\ starts /\ ends /\ equals
        THEN [skip |-> FALSE, result |-> "exact", recurse |-> is_dir]
      ELSE IF ftype /\ starts /\ ends /\ ~search.exact /\ contains
        THEN [skip |-> FALSE, result |-> "contains", recurse |-> is_dir]
      ELSE [skip |-> FALSE, result |-> "none", recurse |-> is_dir]

(***************************************************************************)
(* The worker pool (threadpool.rs).                                        *)
(*                                                                         *)
(* The work channel carries Some(path), here the id of the directory, or   *)
(* None, here 0.  `working` is an AtomicUsize: it is held as the           *)
(* representative, nearest to 0, of its value modulo 2^64, so a decrement  *)
(* of 0 (which wraps to 2^64 - 1) reads -1 and every sum and difference of *)
(* the model is exact.                                                     *)
(***************************************************************************)
VARIABLES
  search,    \* the configuration shared by all workers
  nthreads,  \* Pool::new: available_parallelism
  chan,      \* the work channel (unbounded, FIFO)
  working,   \* Pool.working, the outstanding-work counter
  stop,      \* Pool.stop
  wpc,       \* position of each worker in Worker::work
  wdir,      \* the path a worker received
  wtodo,     \* the entries of that directory the worker has not inspected yet
  wsent,     \* number of None the worker has broadcast
  wres,      \* Worker.results
  mainpc,    \* position of the caller of the pool
  nsent,     \* number of roots the caller has sent
  joinidx,   \* Pool::join: the next thread to join
  results,   \* Pool::join: the merged results
  enq,       \* history: how often each directory was put on the channel
  expd       \* history: how often each directory was received and expanded

poolvars ==
  << nthreads, chan, working, stop, wpc, wdir, wtodo, wsent, wres,
     mainpc, nsent, joinidx, results, enq, expd >>

\* the state of the scoped-task engine (search.rs)
VARIABLES
  rthreads,  \* number of threads of the executor
  status,    \* "running", "exit0", "exit1" (process::exit) or "returned"
  stdout,    \* the lines written to standard output
  wbuf,      \* receive_paths: the lines held by the BufWriter
  rchan,     \* the result channel, bounded
  sender,    \* Search::search still owns the first Sender
  oppc,      \* position of the body of the outer scope
  spawned,   \* number of roots the body has spawned a task for
  held,      \* receive_paths: the result received in first-match mode
  jstate,    \* state of the search_dir task of each directory
  jtodo,     \* entries a running task has not inspected yet
  tstack,    \* the call stack of each executor thread
  buffers    \* receive_paths: the (exact, contains) vectors

rvars ==
  << rthreads, status, stdout, wbuf, rchan, sender, oppc, spawned, held,
     jstate, jtodo, tstack, buffers >>

\* the state of the program of main.rs
VARIABLES
  margs,     \* main: the Search and Args values built from the command line
  mstatus,   \* "running", "exit0", "exit1" or "returned"
  mstdout,   \* the lines written to standard output
  mnext,     \* main: number of roots taken from the iterator of roots
  mpend,     \* how often each entry waits to be passed to search_dir
  mvisits,   \* history: how often search_dir was called on each entry
  mbuf,      \* the (exact, contains) buffers behind the mutex
  mfound,    \* FOUND
  mlock,     \* the thread that holds the mutex of the buffers, 0 for none
  mpc,       \* position of each thread in search_dir / print_var
  mheld      \* the entry a thread is in search_dir for

mvars ==
  << margs, mstatus, mstdout, mnext, mpend, mvisits, mbuf, mfound, mlock,
     mpc, mheld >>

\* one application of the match predicate to one entry
VARIABLES
  pentry,    \* the entry passed to the predicate
  ppc,       \* "ready", then the name of the predicate that was applied
  pres       \* what the predicate returned

pvars == << pentry, ppc, pres >>

\* one application of a function of structs.rs or print.rs to one argument
VARIABLES
  farg,      \* the argument passed to the function
  fpc,       \* "ready", then the name of the function that was applied
  fret       \* what the function returned

fvars == << farg, fpc, fret >>

\* the Herd of bumpalo_herd.rs and the threads that use it
VARIABLES
  herd,      \* the Vec behind the mutex: the Bumps that no Member holds
  hlock,     \* the thread that holds the mutex of the Herd, 0 for none
  hpc,       \* position of each thread in Herd::get / Member::drop
  members,   \* the Bumps of the live Members of each thread, oldest first
  harena,    \* the Bump of the Member a thread is dropping, 0 for none
  hcreated   \* the number of Bumps created so far; Bump n is the n-th

hvars == << herd, hlock, hpc, members, harena, hcreated >>

xvars == << mvars, pvars, fvars, hvars >>

vars == << search, poolvars, rvars, xvars >>

ThreadIds == 1..MaxThreads

None == 0

\* SearchResults::with_capacity: two empty vectors
EmptyResults == [exact |-> <<>>, contains |-> <<>>]

\* a push that puts the result into the partition of the other tag
push_crossed(res, tag, e) ==
  IF tag = "contains" THEN [res EXCEPT !.exact = Append(@, e)]
  ELSE [res EXCEPT !.contains = Append(@, e)]

\* SearchResults::push
push(res, tag, e) ==
  IF tag = "contains" THEN [res EXCEPT !.contains = Append(@, e)]
  ELSE [res EXCEPT !.exact = Append(@, e)]

\* a merge that appends the other collection's partitions crosswise
merge_crossed(res, other) ==
  [exact |-> res.exact \o other.contains, contains |-> res.contains \o other.exact]

\* SearchResults::merge
merge(res, other) ==
  [exact |-> res.exact \o other.exact, contains |-> res.contains \o other.contains]

\* the file system root, "/"
RootDir == 10

\* the arguments of the runs of the pool: walks of r and e with and without
\* hidden entries, a first-match walk of them, and a walk of "/"
PoolCli ==
  [first: {FALSE}, exact: {FALSE}, case_sensitive: {FALSE}, hidden: BOOLEAN,
   simple: {1}, name: {<<97>>}, starts_with: {<<>>}, ends_with: {<<>>},
   file_type: {"All"}, ignore_dirs: {<<>>}, search_in_dirs: {<<>>}]
  \cup
  [first: {TRUE}, exact: {FALSE}, case_sensitive: {FALSE}, hidden: {FALSE},
   simple: {1}, name: {<<97>>}, starts_with: {<<>>}, ends_with: {<<>>},
   file_type: {"All"}, ignore_dirs: {<<>>}, search_in_dirs: {<<>>}]
  \cup
  [first: {FALSE}, exact: {FALSE}, case_sensitive: {FALSE}, hidden: {FALSE},
   simple: {1}, name: {<<97>>}, starts_with: {<<>>}, ends_with: {<<>>},
   file_type: {"All"}, ignore_dirs: {<<>>}, search_in_dirs: {<<RootDir>>}]

\* the roots the caller of the pool sends: the directories given on the
\* command line, or the relative directories r and e when none is given
PoolRoots ==
  IF search.limit THEN {search.dirs[i] : i \in 1..Len(search.dirs)}
  ELSE RootDirs \ {RootDir}

\* Pool::new: the channel is empty, the counter 0, the flag false and every
\* worker is spawned and about to receive
PoolInit ==
  /\ search \in {CliRun(cli) : cli \in PoolCli}
  /\ nthreads \in 1..MaxThreads
  /\ chan = <<>>
  /\ working = 0
  /\ stop = FALSE
  /\ wpc = [w \in ThreadIds |-> IF w <= nthreads THEN "recv" ELSE "none"]
  /\ wdir = [w \in ThreadIds |-> 0]
  /\ wtodo = [w \in ThreadIds |-> {}]
  /\ wsent = [w \in ThreadIds |-> 0]
  /\ wres = [w \in ThreadIds |-> EmptyResults]
  /\ mainpc = "send"
  /\ nsent = 0
  /\ joinidx = 1
  /\ results = EmptyResults
  /\ enq = [e \in EntryIds |-> 0]
  /\ expd = [e \in EntryIds |-> 0]

\* every Receiver of the channel is owned by a worker and dropped when
\* Worker::work returns
Disconnected == \A w \in 1..nthreads : wpc[w] = "exited"

\* Pool::send; the send fails, and unwrap panics, once every receiver is gone.
\* The roots of a run are distinct directories.
PoolSend(root) ==
  /\ mainpc = "send"
  /\ nsent < MaxRoots
  /\ root \in PoolRoots
  /\ enq[root] = 0
  /\ nsent' = nsent + 1
  /\ IF Disconnected
     THEN /\ mainpc' = "panicked"
          /\ UNCHANGED <<chan, enq>>
     ELSE /\ chan' = Append(chan, root)
          /\ enq' = [enq EXCEPT ![root] = @ + 1]
          /\ UNCHANGED mainpc
  /\ UNCHANGED <<rvars, xvars>>
  /\ UNCHANGED <<search, nthreads, working, stop, wpc, wdir, wtodo, wsent, wres,
                 joinidx, results, expd>>

\* Pool::join is entered
PoolJoin ==
  /\ mainpc = "send"
  /\ nsent >= 1
  /\ mainpc' = "join"
  /\ UNCHANGED <<rvars, xvars>>
  /\ UNCHANGED <<search, nthreads, chan, working, stop, wpc, wdir, wtodo, wsent,
                 wres, nsent, joinidx, results, enq, expd>>

\* Pool::stop: store the flag, then join
PoolStop ==
  /\ mainpc = "send"
  /\ nsent >= 1
  /\ stop' = TRUE
  /\ mainpc' = "join"
  /\ UNCHANGED <<rvars, xvars>>
  /\ UNCHANGED <<search, nthreads, chan, working, wpc, wdir, wtodo, wsent,
                 wres, nsent, joinidx, results, enq, expd>>

\* Pool::join, one turn of the loop: thread.join() returns when the thread
\* has returned from Worker::work
JoinThread ==
  /\ mainpc = "join"
  /\ wpc[joinidx] = "exited"
  /\ results' = merge(results, wres[joinidx])
  /\ IF joinidx = nthreads
     THEN mainpc' = "done" /\ UNCHANGED joinidx
     ELSE joinidx' = joinidx + 1 /\ UNCHANGED mainpc
  /\ UNCHANGED <<rvars, xvars>>
  /\ UNCHANGED <<search, nthreads, chan, working, stop, wpc, wdir, wtodo, wsent,
                 wres, nsent, enq, expd>>

\* Worker::work, r_work.recv(): blocks while the channel is empty
Recv(w) ==
  /\ wpc[w] = "recv"
  /\ chan # <<>>
  /\ chan' = Tail(chan)
  /\ IF Head(chan) = None
     THEN /\ wpc' = [wpc EXCEPT ![w] = "exited"]
          /\ UNCHANGED wdir
     ELSE /\ wpc' = [wpc EXCEPT ![w] = "start"]
          /\ wdir' = [wdir EXCEPT ![w] = Head(chan)]
  /\ UNCHANGED <<rvars, xvars>>
  /\ UNCHANGED <<search, nthreads, working, stop, wtodo, wsent, wres, mainpc,
                 nsent, joinidx, results, enq, expd>>

\* a start_work that leaves the counter alone (the increment forgotten)
start_work_forgotten(n) == n

\* a start_work that stores 1 instead of adding 1 to the counter
start_work_store(n) == 1

\* Worker::start_work
start_work(n) == n + 1

\* an end_work that leaves the counter alone (the decrement forgotten)
end_work_forgotten(n) == n

\* Worker::end_work
end_work(n) == n - 1

\* Worker::work: start_work, then search_dir up to read_dir
StartWork(w) ==
  /\ wpc[w] = "start"
  /\ working' = start_work(working)
  /\ expd' = [expd EXCEPT ![wdir[w]] = @ + 1]
  /\ wtodo' = [wtodo EXCEPT ![w] = read_dir(wdir[w]).entries]
  /\ wpc' = [wpc EXCEPT ![w] =
               IF read_dir(wdir[w]).entries = {} THEN "end" ELSE "entries"]
  /\ UNCHANGED <<rvars, xvars>>
  /\ UNCHANGED <<search, nthreads, chan, stop, wdir, wsent, wres, mainpc, nsent,
                 joinidx, results, enq>>

\* a send that leaves the channel alone (the path kept by the worker)
send_kept(ch, path) == ch

\* Worker::send
send(ch, path) == Append(ch, path)

\* Worker::search_dir, one turn of the loop over the entries
InspectEntry(w, e) ==
  /\ wpc[w] = "entries"
  /\ e \in wtodo[w]
  /\ LET r == is_result(e, search)
     IN  /\ wres' = [wres EXCEPT ![w] =
                       IF ~r.skip /\ r.result # "none" THEN push(@, r.result, e) ELSE @]
         /\ IF ~r.skip /\ r.recurse
            THEN /\ chan' = send(chan, e)
                 /\ enq' = [enq EXCEPT ![e] = @ + 1]
            ELSE UNCHANGED <<chan, enq>>
  /\ wtodo' = [wtodo EXCEPT ![w] = @ \ {e}]
  /\ wpc' = [wpc EXCEPT ![w] = IF wtodo[w] = {e} THEN "end" ELSE "entries"]
  /\ UNCHANGED <<rvars, xvars>>
  /\ UNCHANGED <<search, nthreads, working, stop, wdir, wsent, mainpc, nsent,
                 joinidx, results, expd>>

\* Worker::work: end_work
EndWork(w) ==
  /\ wpc[w] = "end"
  /\ working' = end_work(working)
  /\ wpc' = [wpc EXCEPT ![w] = "load"]
  /\ UNCHANGED <<rvars, xvars>>
  /\ UNCHANGED <<search, nthreads, chan, stop, wdir, wtodo, wsent, wres, mainpc,
                 nsent, joinidx, results, enq, expd>>

\* should_stop, left operand: working.load() == 0
LoadWorking(w) ==
  /\ wpc[w] = "load"
  /\ wpc' = [wpc EXCEPT ![w] = IF working = 0 THEN "empty" ELSE "recv"]
  /\ UNCHANGED <<rvars, xvars>>
  /\ UNCHANGED <<search, nthreads, chan, working, stop, wdir, wtodo, wsent, wres,
                 mainpc, nsent, joinidx, results, enq, expd>>

\* should_stop, right operand: r_work.is_empty(); when it holds the worker
\* goes on to send threads - 1 times None
IsEmpty(w) ==
  /\ wpc[w] = "empty"
  /\ wpc' = [wpc EXCEPT ![w] =
               IF chan # <<>> THEN "recv"
               ELSE IF nthreads - 1 = 0 THEN "exited" ELSE "bcast"]
  /\ UNCHANGED <<rvars, xvars>>
  /\ UNCHANGED <<search, nthreads, chan, working, stop, wdir, wtodo, wsent, wres,
                 mainpc, nsent, joinidx, results, enq, expd>>

\* one s_work.send(None) of the loop `for _ in 0..self.threads-1`, then break
Broadcast(w) ==
  /\ wpc[w] = "bcast"
  /\ chan' = Append(chan, None)
  /\ wsent' = [wsent EXCEPT ![w] = @ + 1]
  /\ wpc' = [wpc EXCEPT ![w] = IF wsent[w] + 1 = nthreads - 1 THEN "exited" ELSE "bcast"]
  /\ UNCHANGED <<rvars, xvars>>
  /\ UNCHANGED <<search, nthreads, working, stop, wdir, wtodo, wres, mainpc,
                 nsent, joinidx, results, enq, expd>>

\* one step of a worker thread
Worker(w) ==
  \/ Recv(w)
  \/ StartWork(w)
  \/ \E e \in EntryIds : InspectEntry(w, e)
  \/ EndWork(w)
  \/ LoadWorking(w)
  \/ IsEmpty(w)
  \/ Broadcast(w)

\* one step of the pool or of its caller
PoolNext ==
  \/ \E root \in RootDirs : PoolSend(root)
  \/ PoolJoin
  \/ PoolStop
  \/ JoinThread
  \/ \E w \in ThreadIds : Worker(w)

(***************************************************************************)
(* The scoped-task engine (search.rs): Search::search spawns one           *)
(* search_dir task per root in a rayon scope and runs receive_paths in the *)
(* body of the scope; search_dir spawns one task per subdirectory in a     *)
(* scope of its own.                                                       *)
(*                                                                         *)
(* The executor has rthreads threads.  The body of the outer scope runs    *)
(* on one of them (thread 1).  A spawned task waits in the executor's      *)
(* queues until a thread with nothing to run, or a thread waiting for the  *)
(* tasks of a scope to finish, takes it.  A thread blocked in a channel    *)
(* operation takes no task.  Each thread has the stack of the calls it is  *)
(* in: 0 for the body of the outer scope, d for search_dir of directory d. *)
(***************************************************************************)
\* largest number of executor threads
MaxExec == 2

\* crossbeam_channel::bounded(8)
ChanCap == 8

ExecIds == 1..MaxExec

\* the body of the outer scope
OpFrame == 0

\* root directories given on the command line; 0 is a path that does not
\* exist
RootLists == {<<>>, <<1>>, <<9>>, <<1, 9>>, <<1, 0>>, <<0, 1>>}

\* the arguments of the runs of the engine
EngineCli ==
  [first: BOOLEAN, exact: {FALSE}, case_sensitive: {FALSE}, hidden: {FALSE},
   simple: {0, 1, 2}, name: {<<97>>, <<122>>}, starts_with: {<<>>},
   ends_with: {<<>>}, file_type: {"All"}, ignore_dirs: {<<>>},
   search_in_dirs: RootLists]

\* the engine before Search::search is called
EngineIdle ==
  /\ status = "running"
  /\ stdout = <<>>
  /\ wbuf = <<>>
  /\ rchan = <<>>
  /\ sender = TRUE
  /\ oppc = "spawn"
  /\ spawned = 0
  /\ held = <<>>
  /\ jstate = [d \in EntryIds |-> "none"]
  /\ jtodo = [d \in EntryIds |-> {}]
  /\ buffers = [exact |-> <<>>, contains |-> <<>>]

\* Search::search is entered: the channel exists, the body of the outer
\* scope is about to run on thread 1
EngineInit ==
  /\ search \in {CliRun(cli) : cli \in EngineCli}
  /\ rthreads \in 1..MaxExec
  /\ EngineIdle
  /\ tstack = [t \in ExecIds |-> IF t = 1 THEN <<OpFrame>> ELSE <<>>]

\* SearchResult::exact / SearchResult::contains
SearchResult(tag, e) == [tag |-> tag, entry |-> e]

\* the line println!("{path}") writes for a result
PathLine(r) == <<"path", r.entry>>

\* the line println!("File not found") writes
NotFoundLine == <<"File not found", 0>>

\* the frame a thread is executing, -1 when it executes none
Top(t) == IF tstack[t] = <<>> THEN -1 ELSE tstack[t][Len(tstack[t])]

OpRuns == status = "running" /\ Len(tstack[1]) > 0 /\ Top(1) = OpFrame

\* every Sender has been dropped: the first one by Search::search, the one
\* of each task when its search_dir returns
RDisconnected ==
  ~sender /\ \A d \in EntryIds : jstate[d] \in {"none", "done"}

\* Search::search, unrestricted: one task for the current directory, which
\* takes the Sender
SpawnCurrentDir ==
  /\ OpRuns /\ oppc = "spawn"
  /\ ~search.limit
  /\ jstate' = [jstate EXCEPT ![CurrentDir] = "queued"]
  /\ sender' = FALSE
  /\ spawned' = 1
  /\ oppc' = "recv"
  /\ UNCHANGED <<search, poolvars, xvars>>
  /\ UNCHANGED <<rthreads, status, stdout, wbuf, rchan, held, jtodo, tstack, buffers>>

\* Search::search, one turn of `for dir in dirs`: the root is checked when
\* its turn comes, a root that does not exist ends the process with code 1;
\* after the last root the first Sender is dropped
SpawnRoot ==
  /\ OpRuns /\ oppc = "spawn"
  /\ search.limit
  /\ LET dir == search.dirs[spawned + 1]
     IN  IF dir = 0
         THEN /\ status' = "exit1"
              /\ UNCHANGED <<jstate, sender, spawned, oppc>>
         ELSE /\ jstate' = [jstate EXCEPT ![dir] = "queued"]
              /\ spawned' = spawned + 1
              /\ sender' = (spawned + 1 < Len(search.dirs))
              /\ oppc' = IF spawned + 1 < Len(search.dirs) THEN "spawn" ELSE "recv"
              /\ UNCHANGED status
  /\ UNCHANGED <<search, poolvars, xvars>>
  /\ UNCHANGED <<rthreads, stdout, wbuf, rchan, held, jtodo, tstack, buffers>>

\* receive_paths, first-match mode: receiver.recv() returns a result
RecvFirst ==
  /\ OpRuns /\ oppc = "recv"
  /\ search.first
  /\ rchan # <<>>
  /\ held' = <<Head(rchan)>>
  /\ rchan' = Tail(rchan)
  /\ oppc' = "println"
  /\ UNCHANGED <<search, poolvars, xvars>>
  /\ UNCHANGED <<rthreads, status, stdout, wbuf, sender, spawned, jstate, jtodo,
                 tstack, buffers>>

\* receive_paths, first-match mode: where the thread goes after
\* println!("{path}") when it goes back to receiving
AfterPrintFirst_loop == "recv"

\* receive_paths, first-match mode: println!("{path}") is followed by
\* process::exit(0)
AfterPrintFirst == "exit0"

\* receive_paths, first-match mode: println!("{path}")
PrintFirst ==
  /\ OpRuns /\ oppc = "println"
  /\ stdout' = Append(stdout, PathLine(held[1]))
  /\ oppc' = AfterPrintFirst
  /\ UNCHANGED <<search, poolvars, xvars>>
  /\ UNCHANGED <<rthreads, status, wbuf, rchan, sender, spawned, held, jstate,
                 jtodo, tstack, buffers>>

\* receive_paths, first-match mode: the lines written when recv() fails
NotFoundOutput_always(output) == <<NotFoundLine>>

\* receive_paths, first-match mode: the lines written when recv() fails,
\* "File not found" in Normal mode only
NotFoundOutput(output) == IF output = "Normal" THEN <<NotFoundLine>> ELSE <<>>

\* receive_paths, first-match mode: recv() fails (the channel is empty and
\* disconnected)
RecvFirstErr ==
  /\ OpRuns /\ oppc = "recv"
  /\ search.first
  /\ rchan = <<>> /\ RDisconnected
  /\ stdout' = stdout \o NotFoundOutput(search.output)
  /\ oppc' = "exit0"
  /\ UNCHANGED <<search, poolvars, xvars>>
  /\ UNCHANGED <<rthreads, status, wbuf, rchan, sender, spawned, held, jstate,
                 jtodo, tstack, buffers>>

\* std::process::exit(0)
Exit0 ==
  /\ OpRuns /\ oppc = "exit0"
  /\ status' = "exit0"
  /\ UNCHANGED <<search, poolvars, xvars>>
  /\ UNCHANGED <<rthreads, stdout, wbuf, rchan, sender, oppc, spawned, held,
                 jstate, jtodo, tstack, buffers>>

\* receive_paths, SuperSimple mode: one turn of the loop, writeln! into the
\* BufWriter
RecvStream ==
  /\ OpRuns /\ oppc = "recv"
  /\ ~search.first /\ search.output = "SuperSimple"
  /\ rchan # <<>>
  /\ wbuf' = Append(wbuf, PathLine(Head(rchan)))
  /\ rchan' = Tail(rchan)
  /\ UNCHANGED <<search, poolvars, xvars>>
  /\ UNCHANGED <<rthreads, status, stdout, sender, oppc, spawned, held, jstate,
                 jtodo, tstack, buffers>>

\* a flush that drops what the BufWriter holds
flush_dropped(out, buf) == out

\* BufWriter::flush: what the BufWriter holds is written to standard output
flush(out, buf) == out \o buf

\* receive_paths, SuperSimple mode: the loop ends, stdout.flush(), then
\* process::exit(0)
StreamEnd ==
  /\ OpRuns /\ oppc = "recv"
  /\ ~search.first /\ search.output = "SuperSimple"
  /\ rchan = <<>> /\ RDisconnected
  /\ stdout' = flush(stdout, wbuf)
  /\ wbuf' = <<>>
  /\ oppc' = "exit0"
  /\ UNCHANGED <<search, poolvars, xvars>>
  /\ UNCHANGED <<rthreads, status, rchan, sender, spawned, held, jstate, jtodo,
                 tstack, buffers>>

\* receive_paths, Normal and Simple mode: one turn of the loop
RecvCollect ==
  /\ OpRuns /\ oppc = "recv"
  /\ ~search.first /\ search.output # "SuperSimple"
  /\ rchan # <<>>
  /\ buffers' = push(buffers, Head(rchan).tag, Head(rchan).entry)
  /\ rchan' = Tail(rchan)
  /\ UNCHANGED <<search, poolvars, xvars>>
  /\ UNCHANGED <<rthreads, status, stdout, wbuf, sender, oppc, spawned, held,
                 jstate, jtodo, tstack>>

\* receive_paths returns (exact, contains); the outer scope has no task left
\* to wait for and Search::search returns
CollectEnd ==
  /\ OpRuns /\ oppc = "recv"
  /\ ~search.first /\ search.output # "SuperSimple"
  /\ rchan = <<>> /\ RDisconnected
  /\ status' = "returned"
  /\ oppc' = "done"
  /\ tstack' = [tstack EXCEPT ![1] = SubSeq(@, 1, Len(@) - 1)]
  /\ UNCHANGED <<search, poolvars, xvars>>
  /\ UNCHANGED <<rthreads, stdout, wbuf, rchan, sender, spawned, held, jstate,
                 jtodo, buffers>>

\* a thread can take a task: it runs nothing, or it waits in the scope of a
\* search_dir for the tasks spawned there
CanTake(t) ==
  \/ tstack[t] = <<>>
  \/ tstack[t] # <<>> /\ Top(t) # OpFrame /\ jstate[Top(t)] = "waiting"

\* a thread takes the task of directory d and runs search_dir up to
\* read_dir; when the directory cannot be read search_dir returns at once
TakeTask(t, d) ==
  /\ status = "running"
  /\ t <= rthreads
  /\ CanTake(t)
  /\ jstate[d] = "queued"
  /\ IF read_dir(d).ok
     THEN /\ jstate' = [jstate EXCEPT ![d] =
                          IF read_dir(d).entries = {} THEN "waiting" ELSE "running"]
          /\ jtodo' = [jtodo EXCEPT ![d] = read_dir(d).entries]
          /\ tstack' = [tstack EXCEPT ![t] = Append(@, d)]
     ELSE /\ jstate' = [jstate EXCEPT ![d] = "done"]
          /\ UNCHANGED <<jtodo, tstack>>
  /\ UNCHANGED <<search, poolvars, xvars>>
  /\ UNCHANGED <<rthreads, status, stdout, wbuf, rchan, sender, oppc, spawned,
                 held, buffers>>

\* search_dir, one turn of the loop over the entries: the result is sent
\* (the send blocks while the channel is full) and a task is spawned for a
\* directory
SearchEntry(t, e) ==
  /\ status = "running"
  /\ t <= rthreads
  /\ tstack[t] # <<>> /\ Top(t) # OpFrame
  /\ LET d == Top(t)
         r == is_result(e, search)
     IN  /\ jstate[d] = "running"
         /\ e \in jtodo[d]
         /\ IF ~r.skip /\ r.result # "none"
            THEN /\ Len(rchan) < ChanCap
                 /\ rchan' = Append(rchan, SearchResult(r.result, e))
            ELSE UNCHANGED rchan
         /\ jtodo' = [jtodo EXCEPT ![d] = @ \ {e}]
         /\ jstate' = [jstate EXCEPT
                         ![d] = IF jtodo[d] = {e} THEN "waiting" ELSE "running",
                         ![e] = IF ~r.skip /\ r.recurse THEN "queued" ELSE @]
  /\ UNCHANGED <<search, poolvars, xvars>>
  /\ UNCHANGED <<rthreads, status, stdout, wbuf, sender, oppc, spawned, held,
                 tstack, buffers>>

\* the scope of search_dir ends when every task spawned in it has finished;
\* search_dir returns and drops its Sender
SearchReturn(t) ==
  /\ status = "running"
  /\ t <= rthreads
  /\ tstack[t] # <<>> /\ Top(t) # OpFrame
  /\ jstate[Top(t)] = "waiting"
  /\ \A c \in EntryIds :
       Entries[c].parent = Top(t) => jstate[c] \in {"none", "done"}
  /\ jstate' = [jstate EXCEPT ![Top(t)] = "done"]
  /\ tstack' = [tstack EXCEPT ![t] = SubSeq(@, 1, Len(@) - 1)]
  /\ UNCHANGED <<search, poolvars, xvars>>
  /\ UNCHANGED <<rthreads, status, stdout, wbuf, rchan, sender, oppc, spawned,
                 held, jtodo, buffers>>

\* one step of the body of the outer scope
ScopeBody ==
  \/ SpawnCurrentDir
  \/ SpawnRoot
  \/ RecvFirst
  \/ PrintFirst
  \/ RecvFirstErr
  \/ Exit0
  \/ RecvStream
  \/ StreamEnd
  \/ RecvCollect
  \/ CollectEnd

\* one step of an executor thread on the tasks
Executor(t) ==
  \/ \E d \in EntryIds : TakeTask(t, d)
  \/ \E e \in EntryIds : SearchEntry(t, e)
  \/ SearchReturn(t)

EngineNext ==
  \/ ScopeBody
  \/ \E t \in ExecIds : Executor(t)

(***************************************************************************)
(* The program of main.rs: its configuration and the match predicate of    *)
(* its search_dir.                                                         *)
(***************************************************************************)
\* Search::new of main.rs: the hard-coded ignore paths, a HashSet
ignore_paths == {hardcoded_ignore[i] : i \in 1..Len(hardcoded_ignore)}

\* the directory main.rs runs in (std::env::current_dir, an absolute path)
MainCurrentDir == 11

\* the home directory (directories::UserDirs)
HomeDir == 12

\* main, up to the search: a name that is "." or holds '/' is a directory and
\* the query is then empty; the search is case sensitive when the query holds
\* an uppercase letter; the prefix and the suffix are taken as given
MainRun(cli) ==
  LET is_path == cli.name = <<46>> \/ (\E i \in 1..Len(cli.name) : cli.name[i] = 47)
      name == IF is_path THEN <<>> ELSE cli.name
      limit_to_dirs ==
        IF is_path
        THEN << IF cli.name = <<46>> THEN MainCurrentDir ELSE dir_of_name(cli.name) >>
             \o cli.search_in_dirs
        ELSE cli.search_in_dirs
  IN  [first          |-> cli.first,
       exact          |-> cli.exact,
       limit          |-> limit_to_dirs # <<>>,
       hidden         |-> cli.hidden,
       ignore         |-> {cli.ignore_dirs[i] : i \in 1..Len(cli.ignore_dirs)},
       case_sensitive |-> \E i \in 1..Len(name) : is_uppercase(name[i]),
       name           |-> name,
       starts         |-> cli.starts_with,
       ends           |-> cli.ends_with,
       ftype          |-> cli.file_type,
       simple         |-> cli.simple,
       current_dir    |-> MainCurrentDir,
       home_dir       |-> HomeDir,
       root_dir       |-> RootDir,
       limit_to_dirs  |-> limit_to_dirs]

\* search_dir of main.rs up to the recursion, in the shape of is_result:
\* skip = TRUE is the early return; recurse tells whether the directory is
\* read and its entries searched
main_search_dir(e, args) ==
  LET name   == Entries[e].name
      fname  == IF args.case_sensitive THEN name ELSE to_ascii_lowercase(name)
      path   == entry_path(e)
      is_dir == Entries[e].probe /\ Entries[e].kind = "dir"
      ftype  == CASE args.ftype = "Dir"  -> is_dir
                  [] args.ftype = "File" -> Entries[e].probe /\ Entries[e].kind = "file"
                  [] args.ftype = "All"  -> TRUE
      starts == args.starts # <<>> \/ starts_with(fname, args.starts)
      ends   == args.ends # <<>> \/ ends_with(fname, args.ends)
      recurse ==
        is_dir /\ ~(~args.limit /\ (e = args.current_dir \/ e = args.home_dir))
  IN  IF \/ ~args.hidden /\ (starts_with(fname, <<46>>) \/ path \in ignore_paths)
         \/ path \in args.ignore
        THEN [skip |-> TRUE, result |-> "none", recurse |-> FALSE]
      ELSE IF starts /\ ends /\ ftype /\ fname = args.name
        THEN [skip |-> FALSE, result |-> "exact", recurse |-> recurse]
      ELSE IF starts /\ ends /\ ftype /\ ~args.exact /\ find(fname, args.name) # -1
        THEN [skip |-> FALSE, result |-> "contains", recurse |-> recurse]
      ELSE [skip |-> FALSE, result |-> "none", recurse |-> recurse]

\* the program of main.rs before it runs
MainIdle ==
  /\ mstatus = "idle"
  /\ mstdout = <<>>
  /\ mnext = 0
  /\ mpend = [e \in EntryIds |-> 0]
  /\ mvisits = [e \in EntryIds |-> 0]
  /\ mbuf = EmptyResults
  /\ mfound = FALSE
  /\ mlock = 0
  /\ mpc = [t \in ExecIds |-> "idle"]
  /\ mheld = [t \in ExecIds |-> 0]

(***************************************************************************)
(* The run of main.rs.  The roots are taken one by one from an iterator    *)
(* that checks each root when it is taken (par_bridge); the entries of a   *)
(* directory are passed to search_dir by the threads of the rayon pool in  *)
(* any order.                                                              *)
(***************************************************************************)
\* the command lines of the runs of main.rs; 0 is a directory that does not
\* exist
MainCli ==
  [first: BOOLEAN, exact: {FALSE}, case_sensitive: {FALSE}, hidden: {FALSE},
   simple: {0, 1}, name: {<<97>>, <<122>>},
   starts_with: {<<>>}, ends_with: {<<>>}, file_type: {"All"},
   ignore_dirs: {<<>>},
   search_in_dirs: {<<>>, <<9>>, <<0, 1>>, <<1, 0>>}]

\* where the process runs: the pairs (current directory, home directory),
\* /proc and /proc/a, both /proc/a, and / and /proc/a
MainPlacements == {<<MainCurrentDir, HomeDir>>, <<HomeDir, HomeDir>>, <<RootDir, HomeDir>>}

\* main is entered
MainInit ==
  /\ \E cli \in MainCli, pl \in MainPlacements :
       /\ margs = [MainRun(cli) EXCEPT !.current_dir = pl[1], !.home_dir = pl[2]]
       /\ search = CliRun(cli)
  /\ mstatus = "running"
  /\ mstdout = <<>>
  /\ mnext = 0
  /\ mpend = [e \in EntryIds |-> 0]
  /\ mvisits = [e \in EntryIds |-> 0]
  /\ mbuf = EmptyResults
  /\ mfound = FALSE
  /\ mlock = 0
  /\ mpc = [t \in ExecIds |-> "idle"]
  /\ mheld = [t \in ExecIds |-> 0]

\* main: the roots of the search
MainRoots ==
  IF margs.limit THEN margs.limit_to_dirs
  ELSE <<margs.current_dir, margs.home_dir, margs.root_dir>>

\* read_dir(dir).flatten().par_bridge(): each entry of the directory waits
\* to be passed to search_dir; a directory that cannot be read gives none
PendEntries(pend, d) ==
  [e \in EntryIds |-> IF e \in read_dir(d).entries THEN pend[e] + 1 ELSE pend[e]]

\* no search_dir call is running or waiting
MainQuiet ==
  /\ \A e \in EntryIds : mpend[e] = 0
  /\ \A t \in ExecIds : mpc[t] = "idle"

\* main: the next root is taken from the iterator; in a limited search it is
\* canonicalized, and the process exits with code 1 if that fails; then
\* search_path reads it.  An unrestricted first-match search takes the roots
\* one after the other.
TakeRoot(t) ==
  /\ mstatus = "running"
  /\ t <= rthreads
  /\ mpc[t] = "idle"
  /\ mnext < Len(MainRoots)
  /\ (~margs.limit /\ margs.first) => MainQuiet
  /\ mnext' = mnext + 1
  /\ IF MainRoots[mnext + 1] = 0
     THEN /\ mstatus' = "exit1"
          /\ UNCHANGED mpend
     ELSE /\ mpend' = PendEntries(mpend, MainRoots[mnext + 1])
          /\ UNCHANGED mstatus
  /\ UNCHANGED <<margs, mstdout, mvisits, mbuf, mfound, mlock, mpc, mheld>>
  /\ UNCHANGED <<search, poolvars, rvars, pvars, fvars, hvars>>

\* search_dir is called on an entry: an entry that is no match is done with
\* at once (its directory read, its entries left to the pool); a match goes
\* on to lock the buffers
EnterEntry(t, e) ==
  /\ mstatus = "running"
  /\ t <= rthreads
  /\ mpc[t] = "idle"
  /\ mpend[e] > 0
  /\ mvisits' = [mvisits EXCEPT ![e] = @ + 1]
  /\ LET r == main_search_dir(e, margs)
         taken == [mpend EXCEPT ![e] = @ - 1]
     IN  IF r.skip
         THEN mpend' = taken /\ UNCHANGED <<mpc, mheld>>
         ELSE IF r.result # "none"
         THEN /\ mpend' = taken
              /\ mpc' = [mpc EXCEPT ![t] = "lock"]
              /\ mheld' = [mheld EXCEPT ![t] = e]
         ELSE /\ mpend' = IF r.recurse THEN PendEntries(taken, e) ELSE taken
              /\ UNCHANGED <<mpc, mheld>>
  /\ UNCHANGED <<margs, mstatus, mstdout, mnext, mbuf, mfound, mlock>>
  /\ UNCHANGED <<search, poolvars, rvars, pvars, fvars, hvars>>

\* search_dir after print_var has returned: a directory is read and its
\* entries are left to the pool
AfterPrintVar(t, pend) ==
  IF main_search_dir(mheld[t], margs).recurse THEN PendEntries(pend, mheld[t])
  ELSE pend

\* a lock that is given to every thread that asks for it
lock_shared(holder) == TRUE

\* Mutex::lock returns when no thread holds the mutex
lock(holder) == holder = 0

\* buffers.lock() and the call of print_var: without --first the path is
\* pushed and the lock released at the end of the statement; with --first
\* print_var runs on under the lock
LockBuffers(t) ==
  /\ mstatus = "running"
  /\ mpc[t] = "lock"
  /\ lock(mlock)
  /\ IF margs.first
     THEN /\ mlock' = t
          /\ mpc' = [mpc EXCEPT ![t] = "load"]
          /\ UNCHANGED <<mbuf, mpend, mheld>>
     ELSE /\ mbuf' = push(mbuf, main_search_dir(mheld[t], margs).result, mheld[t])
          /\ mpend' = AfterPrintVar(t, mpend)
          /\ mpc' = [mpc EXCEPT ![t] = "idle"]
          /\ mheld' = [mheld EXCEPT ![t] = 0]
          /\ UNCHANGED mlock
  /\ UNCHANGED <<margs, mstatus, mstdout, mnext, mvisits, mfound>>
  /\ UNCHANGED <<search, poolvars, rvars, pvars, fvars, hvars>>

\* print_var: FOUND.load(); when it is set print_var returns
LoadFound(t) ==
  /\ mstatus = "running"
  /\ mpc[t] = "load"
  /\ IF mfound
     THEN /\ mlock' = 0
          /\ mpend' = AfterPrintVar(t, mpend)
          /\ mpc' = [mpc EXCEPT ![t] = "idle"]
          /\ mheld' = [mheld EXCEPT ![t] = 0]
     ELSE /\ mpc' = [mpc EXCEPT ![t] = "store"]
          /\ UNCHANGED <<mlock, mpend, mheld>>
  /\ UNCHANGED <<margs, mstatus, mstdout, mnext, mvisits, mbuf, mfound>>
  /\ UNCHANGED <<search, poolvars, rvars, pvars, fvars, hvars>>

\* print_var: FOUND.store(true)
StoreFound(t) ==
  /\ mstatus = "running"
  /\ mpc[t] = "store"
  /\ mfound' = TRUE
  /\ mpc' = [mpc EXCEPT ![t] = "println"]
  /\ UNCHANGED <<margs, mstatus, mstdout, mnext, mpend, mvisits, mbuf, mlock, mheld>>
  /\ UNCHANGED <<search, poolvars, rvars, pvars, fvars, hvars>>

\* print_var: println!("{}", path.display())
PrintFound(t) ==
  /\ mstatus = "running"
  /\ mpc[t] = "println"
  /\ mstdout' = Append(mstdout, <<"path", mheld[t]>>)
  /\ mpc' = [mpc EXCEPT ![t] = "exit"]
  /\ UNCHANGED <<margs, mstatus, mnext, mpend, mvisits, mbuf, mfound, mlock, mheld>>
  /\ UNCHANGED <<search, poolvars, rvars, pvars, fvars, hvars>>

\* print_var: std::process::exit(0)
ExitFound(t) ==
  /\ mstatus = "running"
  /\ mpc[t] = "exit"
  /\ mstatus' = "exit0"
  /\ UNCHANGED <<margs, mstdout, mnext, mpend, mvisits, mbuf, mfound, mlock, mpc, mheld>>
  /\ UNCHANGED <<search, poolvars, rvars, pvars, fvars, hvars>>

\* par_sort_unstable of paths: the sequence in ascending order of the paths
RECURSIVE sort_paths(_)
sort_paths(seq) ==
  IF seq = <<>> THEN <<>>
  ELSE LET least == CHOOSE i \in 1..Len(seq) :
                      \A j \in 1..Len(seq) :
                        \/ path_cmp(entry_path(seq[i]), entry_path(seq[j])) < 0
                        \/ path_cmp(entry_path(seq[i]), entry_path(seq[j])) = 0 /\ i <= j
       IN  <<seq[least]>>
           \o sort_paths([k \in 1..(Len(seq) - 1) |->
                            IF k < least THEN seq[k] ELSE seq[k + 1]])

\* main: the lines printed for the results
ResultLines(ex, co) ==
  (IF margs.simple = 0 THEN << <<"Contains:", 0>> >> ELSE <<>>)
  \o [i \in 1..Len(co) |-> <<"path", co[i]>>]
  \o (IF margs.simple = 0 THEN << <<"Exact:", 0>> >> ELSE <<>>)
  \o [i \in 1..Len(ex) |-> <<"path", ex[i]>>]

\* main, after the search: "File not found" when both buffers are empty,
\* else the results, sorted unless -ss was given
MainPrint ==
  /\ mstatus = "running"
  /\ mnext = Len(MainRoots)
  /\ MainQuiet
  /\ mstdout' =
       IF mbuf.exact = <<>> /\ mbuf.contains = <<>>
       THEN Append(mstdout, NotFoundLine)
       ELSE IF margs.simple <= 1
       THEN mstdout \o ResultLines(sort_paths(mbuf.exact), sort_paths(mbuf.contains))
       ELSE mstdout \o ResultLines(mbuf.exact, mbuf.contains)
  /\ mstatus' = "returned"
  /\ UNCHANGED <<margs, mnext, mpend, mvisits, mbuf, mfound, mlock, mpc, mheld>>
  /\ UNCHANGED <<search, poolvars, rvars, pvars, fvars, hvars>>

\* one step of a thread of main.rs
MainThread(t) ==
  \/ TakeRoot(t)
  \/ \E e \in EntryIds : EnterEntry(t, e)
  \/ LockBuffers(t)
  \/ LoadFound(t)
  \/ StoreFound(t)
  \/ PrintFound(t)
  \/ ExitFound(t)

MainNext ==
  \/ \E t \in ExecIds : MainThread(t)
  \/ MainPrint

(***************************************************************************)
(* The match predicates applied to one entry under one configuration.      *)
(***************************************************************************)
\* paths of the explicit ignore lists: r/d and r/.h, relative and existing,
\* /u and /proc, absolute, and ab, relative and not in the current directory
IgnoreD == entry_path(2)
IgnoreH == entry_path(4)
IgnoreU == entry_path(13)
IgnoreProc == entry_path(11)
IgnoreAb == << <<97, 98>> >>

\* the command lines the predicates are applied under
PredCli ==
  [first: {FALSE}, exact: BOOLEAN, case_sensitive: BOOLEAN, hidden: BOOLEAN,
   simple: {1}, name: {<<>>, <<97>>, <<65, 98>>, <<104>>},
   starts_with: {<<>>, <<98>>}, ends_with: {<<>>, <<98>>},
   file_type: {"All", "Dir", "File"},
   ignore_dirs: {<<>>, <<IgnoreD, IgnoreH>>, <<IgnoreProc, IgnoreU>>,
                 <<IgnoreU, IgnoreProc>>, <<IgnoreAb>>},
   search_in_dirs: {<<RootDir>>}]

\* no predicate applied: the value of pres before an application
NoResult == [skip |-> FALSE, result |-> "none", recurse |-> FALSE]

\* no predicate is being applied
PredIdle == pentry = 0 /\ ppc = "idle" /\ pres = NoResult

\* an entry of a directory is about to be passed to a predicate
PredInit ==
  /\ \E cli \in PredCli : search = CliRun(cli) /\ margs = MainRun(cli)
  /\ pentry \in {e \in EntryIds : Entries[e].parent # 0}
  /\ ppc = "ready"
  /\ pres = NoResult

\* is_result of search.rs is applied to the entry
ApplyIsResult ==
  /\ ppc = "ready"
  /\ pres' = is_result(pentry, search)
  /\ ppc' = "is_result"
  /\ UNCHANGED <<search, poolvars, rvars, mvars, pentry, fvars, hvars>>

\* search_dir of main.rs is applied to the entry
ApplyMainSearchDir ==
  /\ ppc = "ready"
  /\ pres' = main_search_dir(pentry, margs)
  /\ ppc' = "search_dir"
  /\ UNCHANGED <<search, poolvars, rvars, mvars, pentry, fvars, hvars>>

PredNext ==
  \/ ApplyIsResult
  \/ ApplyMainSearchDir

(***************************************************************************)
(* The functions of structs.rs and print.rs applied to one argument.       *)
(***************************************************************************)
\* get_start_end of print_with_highlight: the first offset of s in sname and
\* the offset behind it; <<-1, -1>> when s does not occur (unwrap of None)
get_start_end(sname, s) ==
  IF find(sname, s) = -1 THEN <<-1, -1>>
  ELSE <<find(sname, s), find(sname, s) + Len(s)>>

\* &fname[lo..hi]: the bytes of the range, "panic" when the range does not
\* lie in the name or starts behind its end
slice(fname, lo, hi) ==
  IF lo < 0 \/ lo > hi \/ hi > Len(fname) THEN "panic"
  ELSE SubSeq(fname, lo + 1, hi)

\* print_with_highlight on a file name: the three highlight ranges and the
\* six slices of the name that are written, or the panic of a slice
print_with_highlight(a) ==
  LET sname == IF a.case_sensitive THEN a.fname ELSE to_ascii_lowercase(a.fname)
      starts_idx == IF a.starts = <<>> THEN <<0, 0>> ELSE get_start_end(sname, a.starts)
      name_idx == IF a.name = <<>> THEN <<starts_idx[2], starts_idx[2]>>
                  ELSE get_start_end(sname, a.name)
      ends_idx == IF a.ends = <<>> THEN <<name_idx[2], name_idx[2]>>
                  ELSE get_start_end(sname, a.ends)
      parts == << slice(a.fname, starts_idx[1], starts_idx[2]),
                  slice(a.fname, starts_idx[2], name_idx[1]),
                  slice(a.fname, name_idx[1], name_idx[2]),
                  slice(a.fname, name_idx[2], ends_idx[1]),
                  slice(a.fname, ends_idx[1], ends_idx[2]),
                  slice(a.fname, ends_idx[2], Len(a.fname)) >>
  IN  [starts_idx |-> starts_idx, name_idx |-> name_idx, ends_idx |-> ends_idx,
       panic |-> \E i \in 1..6 : parts[i] = "panic",
       parts |-> parts]

\* the longest file name passed to print_with_highlight
MaxName == 3

\* the file names: the strings of 1..MaxName letters a and b
HighlightNames == UNION {[1..n -> {97, 98}] : n \in 1..MaxName}

\* the arguments of print_with_highlight: a file name and the prefix, query
\* and suffix of the Search, "" for one that is not given
HighlightArgs ==
  [fname: HighlightNames, case_sensitive: BOOLEAN,
   starts: {<<>>, <<97>>, <<97, 98>>},
   name: {<<>>, <<97>>, <<98>>, <<98, 97>>},
   ends: {<<>>, <<98>>, <<97, 98>>}]

\* the longest array passed to sorted
MaxLen == 3

\* the strings of the arrays: "", "a", "ab", "b", "ba"
SortStrings == {<<>>, <<97>>, <<97, 98>>, <<98>>, <<98, 97>>}

\* the arrays passed to sorted: duplicates and proper prefixes included
SortArrays == UNION {[1..n -> SortStrings] : n \in 0..MaxLen}

\* no function is being applied
FunIdle == farg = <<>> /\ fpc = "idle" /\ fret = <<>>

\* an array is about to be passed to sorted, or a file name to
\* print_with_highlight
FunInit ==
  /\ \/ farg \in SortArrays /\ fpc = "ready"
     \/ farg \in HighlightArgs /\ fpc = "ready_highlight"
  /\ fret = <<>>

\* sorted is applied to the array
ApplySorted ==
  /\ fpc = "ready"
  /\ fret' = sorted(farg)
  /\ fpc' = "sorted"
  /\ UNCHANGED <<search, poolvars, rvars, mvars, pvars, farg, hvars>>

\* print_with_highlight is applied to the file name
ApplyHighlight ==
  /\ fpc = "ready_highlight"
  /\ fret' = print_with_highlight(farg)
  /\ fpc' = "print_with_highlight"
  /\ UNCHANGED <<search, poolvars, rvars, mvars, pvars, farg, hvars>>

FunNext ==
  \/ ApplySorted
  \/ ApplyHighlight

(***************************************************************************)
(* The Herd (bumpalo_herd.rs): a Vec of Bumps behind a mutex.  Herd::get   *)
(* pops a Bump or creates one and wraps it in a Member; dropping a Member  *)
(* pushes its Bump back.                                                   *)
(***************************************************************************)
\* the largest number of Members alive at once
MaxMembers == 3

\* no thread uses the Herd
HerdIdle ==
  /\ herd = <<>>
  /\ hlock = 0
  /\ hpc = [t \in ThreadIds |-> "none"]
  /\ members = [t \in ThreadIds |-> <<>>]
  /\ harena = [t \in ThreadIds |-> 0]
  /\ hcreated = 0

\* Herd::new: the Vec is empty
HerdInit ==
  /\ herd = <<>>
  /\ hlock = 0
  /\ hpc = [t \in ThreadIds |-> "idle"]
  /\ members = [t \in ThreadIds |-> <<>>]
  /\ harena = [t \in ThreadIds |-> 0]
  /\ hcreated = 0

\* the number of live Members, those being dropped included
RECURSIVE LiveMembers(_)
LiveMembers(n) ==
  IF n = 0 THEN 0
  ELSE Len(members[n]) + (IF harena[n] # 0 THEN 1 ELSE 0) + LiveMembers(n - 1)

\* a pop that hands out the last Bump and leaves it in the Vec
pop_kept(v) == v

\* Vec::pop: the Vec without its last element
pop(v) == SubSeq(v, 1, Len(v) - 1)

\* Herd::get: self.0.lock()
GetLock(t) ==
  /\ hpc[t] = "idle"
  /\ LiveMembers(MaxThreads) + Cardinality({u \in ThreadIds : hpc[u] = "get"}) < MaxMembers
  /\ lock(hlock)
  /\ hlock' = t
  /\ hpc' = [hpc EXCEPT ![t] = "get"]
  /\ UNCHANGED <<herd, members, harena, hcreated>>
  /\ UNCHANGED <<search, poolvars, rvars, mvars, pvars, fvars>>

\* Herd::get: lock.pop().unwrap_or_default(), the Member is returned and
\* the lock released
GetPop(t) ==
  /\ hpc[t] = "get"
  /\ IF herd # <<>>
     THEN /\ members' = [members EXCEPT ![t] = Append(@, herd[Len(herd)])]
          /\ herd' = pop(herd)
          /\ UNCHANGED hcreated
     ELSE /\ members' = [members EXCEPT ![t] = Append(@, hcreated + 1)]
          /\ hcreated' = hcreated + 1
          /\ UNCHANGED herd
  /\ hlock' = 0
  /\ hpc' = [hpc EXCEPT ![t] = "idle"]
  /\ UNCHANGED harena
  /\ UNCHANGED <<search, poolvars, rvars, mvars, pvars, fvars>>

\* Member::drop of the i-th Member of the thread: self.owner.0.lock()
DropLock(t, i) ==
  /\ hpc[t] = "idle"
  /\ i \in 1..Len(members[t])
  /\ lock(hlock)
  /\ hlock' = t
  /\ harena' = [harena EXCEPT ![t] = members[t][i]]
  /\ members' = [members EXCEPT ![t] =
                   SubSeq(@, 1, i - 1) \o SubSeq(@, i + 1, Len(@))]
  /\ hpc' = [hpc EXCEPT ![t] = "drop"]
  /\ UNCHANGED <<herd, hcreated>>
  /\ UNCHANGED <<search, poolvars, rvars, mvars, pvars, fvars>>

\* Member::drop: ManuallyDrop::take, lock.push(member), the lock released
DropPush(t) ==
  /\ hpc[t] = "drop"
  /\ herd' = Append(herd, harena[t])
  /\ harena' = [harena EXCEPT ![t] = 0]
  /\ hlock' = 0
  /\ hpc' = [hpc EXCEPT ![t] = "idle"]
  /\ UNCHANGED <<members, hcreated>>
  /\ UNCHANGED <<search, poolvars, rvars, mvars, pvars, fvars>>

\* one step of a thread that uses the Herd
HerdThread(t) ==
  \/ GetLock(t)
  \/ GetPop(t)
  \/ \E i \in 1..MaxMembers : DropLock(t, i)
  \/ DropPush(t)

HerdNext == \E t \in ThreadIds : HerdThread(t)

(***************************************************************************)
(* The specifications.                                                     *)
(***************************************************************************)
\* the worker pool and its caller
Init ==
  /\ PoolInit
  /\ rthreads = 1
  /\ EngineIdle
  /\ tstack = [t \in ExecIds |-> <<>>]
  /\ margs = MainRun(CHOOSE cli \in PoolCli : search = CliRun(cli))
  /\ MainIdle
  /\ PredIdle
  /\ FunIdle
  /\ HerdIdle

Next == PoolNext

Spec == Init /\ [][Next]_vars

\* the pool on the walks of r and e that skip hidden entries
FairInit == Init /\ ~search.hidden /\ ~search.first /\ ~search.limit

\* the operating system schedules every thread that can run
FairSpec ==
  /\ FairInit /\ [][Next]_vars
  /\ \A w \in ThreadIds : WF_vars(Worker(w))
  /\ WF_vars(JoinThread)

\* the pool before Pool::new is called
PoolIdle ==
  /\ nthreads = 1
  /\ chan = <<>>
  /\ working = 0
  /\ stop = FALSE
  /\ wpc = [w \in ThreadIds |-> "none"]
  /\ wdir = [w \in ThreadIds |-> 0]
  /\ wtodo = [w \in ThreadIds |-> {}]
  /\ wsent = [w \in ThreadIds |-> 0]
  /\ wres = [w \in ThreadIds |-> EmptyResults]
  /\ mainpc = "idle"
  /\ nsent = 0
  /\ joinidx = 1
  /\ results = EmptyResults
  /\ enq = [e \in EntryIds |-> 0]
  /\ expd = [e \in EntryIds |-> 0]

\* the scoped-task engine
EngineSpecInit ==
  /\ EngineInit
  /\ PoolIdle
  /\ margs = MainRun(CHOOSE cli \in EngineCli : search = CliRun(cli))
  /\ MainIdle
  /\ PredIdle
  /\ FunIdle
  /\ HerdIdle

EngineSpec == EngineSpecInit /\ [][EngineNext]_vars

\* the operating system schedules every thread that can run
EngineFairSpec ==
  /\ EngineSpec
  /\ WF_vars(ScopeBody)
  /\ \A t \in ExecIds : WF_vars(Executor(t))

\* the match predicates on single entries
PredSpecInit ==
  /\ PredInit
  /\ PoolIdle
  /\ rthreads = 1
  /\ EngineIdle
  /\ tstack = [t \in ExecIds |-> <<>>]
  /\ MainIdle
  /\ FunIdle
  /\ HerdIdle

PredSpec == PredSpecInit /\ [][PredNext]_vars

\* the program of main.rs on a rayon pool of 1..MaxExec threads
MainSpecInit ==
  /\ MainInit
  /\ PoolIdle
  /\ rthreads \in 1..MaxExec
  /\ EngineIdle
  /\ tstack = [t \in ExecIds |-> <<>>]
  /\ PredIdle
  /\ FunIdle
  /\ HerdIdle

MainSpec == MainSpecInit /\ [][MainNext]_vars

\* the functions of structs.rs on single arguments
FunSpecInit ==
  /\ FunInit
  /\ search = CliRun(CHOOSE cli \in PoolCli : TRUE)
  /\ PoolIdle
  /\ rthreads = 1
  /\ EngineIdle
  /\ tstack = [t \in ExecIds |-> <<>>]
  /\ margs = MainRun(CHOOSE cli \in PoolCli : TRUE)
  /\ MainIdle
  /\ PredIdle
  /\ HerdIdle

FunSpec == FunSpecInit /\ [][FunNext]_vars

\* the Herd used by the threads
HerdSpecInit ==
  /\ HerdInit
  /\ search = CliRun(CHOOSE cli \in PoolCli : TRUE)
  /\ PoolIdle
  /\ rthreads = 1
  /\ EngineIdle
  /\ tstack = [t \in ExecIds |-> <<>>]
  /\ margs = MainRun(CHOOSE cli \in PoolCli : TRUE)
  /\ MainIdle
  /\ PredIdle
  /\ FunIdle

HerdSpec == HerdSpecInit /\ [][HerdNext]_vars

(***************************************************************************)
(* Properties of the worker pool.                                          *)
(***************************************************************************)
AllExited == \A w \in 1..nthreads : wpc[w] = "exited"

\* a directory path is in the channel, is being expanded, or was received by
\* a worker that has not incremented the counter yet
PathPending ==
  \/ \E i \in 1..Len(chan) : chan[i] # None
  \/ \E w \in 1..nthreads : wpc[w] \in {"start", "entries"}

\* C1: no worker starts the broadcast of None and no worker leaves its loop
\* while a directory path is in the channel, is being expanded or has been
\* received without the counter incremented yet.
C1_NoStopWhileWorkRemains ==
  [][\A w \in ThreadIds :
       (wpc[w] \notin {"bcast", "exited"} /\ wpc'[w] \in {"bcast", "exited"})
         => ~PathPending]_vars

\* C2: when Pool::join has returned, every directory put on the channel has
\* been received and expanded, once for each time it was put there.
C2_EveryPathExpandedOnce ==
  mainpc = "done" => \A d \in EntryIds : expd[d] = enq[d]

\* C3: once a root has been sent every worker leaves its loop, and a join
\* that was entered returns.
C3_PoolTerminates ==
  /\ (nsent >= 1) ~> AllExited
  /\ (mainpc = "join") ~> (mainpc = "done")

\* C3 witness: with two workers the chain r/d/ab was walked to its end, every
\* worker has left its loop and the join has returned
C3_Witness ==
  /\ nthreads = 2
  /\ expd[5] = 1
  /\ AllExited
  /\ mainpc = "done"

\* C4: the outstanding-work counter is never decremented below 0.
C4_WorkingNonNegative == working >= 0

\* C4 witness: a worker has just run end_work and brought the counter back to
\* 0 while the other worker holds a path it has not counted yet
C4_Witness ==
  /\ working = 0
  /\ \E w \in 1..nthreads : wpc[w] = "load"
  /\ \E w \in 1..nthreads : wpc[w] = "start"

(***************************************************************************)
(* What a complete walk has to report, stated on the tree.                 *)
(***************************************************************************)
SeqToSet(s) == {s[i] : i \in DOMAIN s}

\* the roots put on the channel
SentRoots == {d \in RootDirs : enq[d] > 0}

\* the entry's path is one of the explicit ignore entries
ExplicitlyIgnored(e) ==
  \E i \in 1..Len(search.explicit_ignore) : search.explicit_ignore[i] = entry_path(e)

\* the entry is hidden and hidden entries are not searched
HiddenSkipped(e) ==
  ~search.hidden /\ Entries[e].name # <<>> /\ Entries[e].name[1] = 46

\* the entry lies below one of the roots, with no ignored, hidden-skipped or
\* unreadable directory on the way down to it
RECURSIVE InScope(_, _)
InScope(e, roots) ==
  LET p == Entries[e].parent
  IN  /\ p # 0
      /\ Entries[p].kind = "dir" /\ Entries[p].readable
      /\ \/ p \in roots
         \/ InScope(p, roots) /\ ~ExplicitlyIgnored(p) /\ ~HiddenSkipped(p)

FoldedName(e) ==
  IF search.case_sensitive THEN Entries[e].name ELSE to_ascii_lowercase(Entries[e].name)

PassesTypeFilter(e) ==
  \/ search.ftype = "All"
  \/ search.ftype = "Dir" /\ Entries[e].kind = "dir"
  \/ search.ftype = "File" /\ Entries[e].kind # "dir"

PassesPrefixSuffix(e) ==
  /\ search.starts = <<>> \/ starts_with(FoldedName(e), search.starts)
  /\ search.ends = <<>> \/ ends_with(FoldedName(e), search.ends)

\* q occurs in s
IsSubstring(q, s) ==
  \E i \in 0..(Len(s) - Len(q)) : \A k \in 1..Len(q) : s[i + k] = q[k]

PassesFilters(e, roots) ==
  /\ InScope(e, roots)
  /\ ~ExplicitlyIgnored(e)
  /\ ~HiddenSkipped(e)
  /\ PassesTypeFilter(e)
  /\ PassesPrefixSuffix(e)

ExpectedExact ==
  {e \in EntryIds : PassesFilters(e, SentRoots) /\ FoldedName(e) = search.name}

ExpectedContains ==
  {e \in EntryIds : /\ PassesFilters(e, SentRoots)
                    /\ IsSubstring(search.name, FoldedName(e))
                    /\ FoldedName(e) # search.name}

\* C5: after the walk the Exact partition is exactly the set of the entries
\* in scope that pass the ignore, hidden, type and prefix/suffix filters and
\* whose folded name equals the query (stated for the walks of a single
\* root).
C5_ExactPartitionComplete ==
  (mainpc = "done" /\ nsent = 1) => SeqToSet(results.exact) = ExpectedExact

\* C6: with exact-only mode off, after the walk the Contains partition is
\* exactly the set of the entries in scope that pass the filters and whose
\* folded name contains the query without being equal to it (stated for the
\* walks of a single root).
C6_ContainsPartitionComplete ==
  (mainpc = "done" /\ nsent = 1 /\ ~search.exact) =>
    SeqToSet(results.contains) = ExpectedContains

(***************************************************************************)
(* The walk of one worker that takes the directories one after the other:  *)
(* the result every run over the same tree and configuration has to agree  *)
(* with.                                                                   *)
(***************************************************************************)
RECURSIVE WalkedFrom(_)
WalkedFrom(dirs) ==
  LET more == {e \in EntryIds :
                 /\ Entries[e].parent \in dirs
                 /\ read_dir(Entries[e].parent).ok
                 /\ ~is_result(e, search).skip
                 /\ is_result(e, search).recurse}
  IN  IF more \subseteq dirs THEN dirs ELSE WalkedFrom(dirs \cup more)

WalkResult(tag) ==
  {e \in EntryIds : /\ Entries[e].parent \in WalkedFrom(SentRoots)
                    /\ read_dir(Entries[e].parent).ok
                    /\ ~is_result(e, search).skip
                    /\ is_result(e, search).result = tag}

\* C7: every run over the same tree with the same configuration returns the
\* same set of Exact results and the same set of Contains results, those of
\* the walk that takes the directories one after the other (stated for the
\* walks of a single root).
C7_SameResultEveryRun ==
  (mainpc = "done" /\ nsent = 1) =>
    /\ SeqToSet(results.exact) = WalkResult("exact")
    /\ SeqToSet(results.contains) = WalkResult("contains")

\* a run that returns the results of the whole walk of r
C7_CompleteRun ==
  /\ mainpc = "done"
  /\ nthreads = 2
  /\ SentRoots = {1}
  /\ SeqToSet(results.exact) = WalkResult("exact")
  /\ SeqToSet(results.contains) = WalkResult("contains")

(***************************************************************************)
(* Properties of the scoped-task engine in first-match mode.               *)
(***************************************************************************)
\* the roots of the search
EngineRoots ==
  IF search.limit THEN {search.dirs[i] : i \in 1..Len(search.dirs)} \ {0}
  ELSE {CurrentDir}

\* every root given on the command line exists
AllRootsExist == \A i \in 1..Len(search.dirs) : search.dirs[i] # 0

\* an entry in scope is a match of the search
MatchInScope ==
  \E e \in EntryIds :
    /\ PassesFilters(e, EngineRoots)
    /\ IsSubstring(search.name, FoldedName(e))
    /\ search.exact => FoldedName(e) = search.name

\* the lines of standard output that are paths
PathLines == {i \in 1..Len(stdout) : stdout[i][1] = "path"}

\* C8: in first-match mode at most one path is written to standard output,
\* and once it is written the next step of the receiving thread is the exit
\* of the process.
C8_FirstMatchOnePath ==
  search.first =>
    /\ Cardinality(PathLines) <= 1
    /\ PathLines # {} => (status = "exit0" \/ (status = "running" /\ oppc = "exit0"))

\* C8 witness: the process has exited after one path while a second result,
\* sent by a task on the other thread, is still in the channel
C8_Witness ==
  /\ search.first
  /\ rthreads = 2
  /\ status = "exit0"
  /\ Cardinality(PathLines) = 1
  /\ rchan # <<>>

\* one path has been written and the process has exited with code 0
FirstEmitted ==
  /\ status = "exit0"
  /\ Len(stdout) = 1
  /\ stdout[1][1] = "path"

\* C9: in first-match mode with a match in scope the run does not come to
\* rest before exactly one path has been written and the process has exited
\* with code 0.
C9_FirstMatchEmitted ==
  (search.first /\ AllRootsExist /\ MatchInScope) =>
    (FirstEmitted \/ ENABLED EngineNext)

\* C10 as claimed: in first-match mode with no match in scope, a process that
\* has ended has exited with code 0 after writing the empty-result
\* indication, in every output mode.
C10_NotFoundEveryMode ==
  (search.first /\ AllRootsExist /\ ~MatchInScope /\ status # "running") =>
    (status = "exit0" /\ stdout = <<NotFoundLine>>)

\* C10: in first-match mode with no match in scope, a process that has ended
\* has exited with code 0, after writing "File not found" in Normal mode and
\* nothing in Simple and SuperSimple mode.
C10_NotFoundNormalOnly ==
  (search.first /\ AllRootsExist /\ ~MatchInScope /\ status # "running") =>
    /\ status = "exit0"
    /\ search.output = "Normal" => stdout = <<NotFoundLine>>
    /\ search.output # "Normal" => stdout = <<>>

\* C10 witness: a first-match search in Simple mode found nothing below r and
\* has exited with code 0, having written nothing
C10_Witness ==
  /\ search.first
  /\ search.output = "Simple"
  /\ ~MatchInScope
  /\ jstate[5] = "done"
  /\ status = "exit0"
  /\ stdout = <<>>

(***************************************************************************)
(* Further properties of the worker pool.                                  *)
(***************************************************************************)
\* the directory of the model that cannot be read
Unreadable == 13

\* C13: a walk that met a directory it could not open expanded it once, put
\* none of its entries on the channel, brought the counter back to 0 and
\* reports every match outside that directory.
C13_UnreadableDirectorySkipped ==
  (mainpc = "done" /\ expd[Unreadable] >= 1) =>
    /\ expd[Unreadable] = 1
    /\ \A e \in EntryIds : Entries[e].parent = Unreadable => enq[e] = 0
    /\ working = 0
    /\ ExpectedExact \subseteq SeqToSet(results.exact)
    /\ ExpectedContains \subseteq SeqToSet(results.contains)

\* the number of times e occurs in the sequence s
CountIn(s, e) == Cardinality({i \in 1..Len(s) : s[i] = e})

\* the number of times e occurs in the collections of tag of workers 1..n
RECURSIVE CountInWorkers(_, _, _)
CountInWorkers(tag, e, n) ==
  IF n = 0 THEN 0
  ELSE CountIn(wres[n][tag], e) + CountInWorkers(tag, e, n - 1)

\* C15: when Pool::join has returned, the returned Exact collection is the
\* multiset union of the workers' Exact collections and the returned Contains
\* collection the multiset union of their Contains collections.
C15_ResultsMergedOnce ==
  mainpc = "done" =>
    \A e \in EntryIds :
      /\ CountIn(results.exact, e) = CountInWorkers("exact", e, nthreads)
      /\ CountIn(results.contains, e) = CountInWorkers("contains", e, nthreads)

\* C15 witness: two workers each hold results, of both partitions between
\* them, and the join has returned
C15_Witness ==
  /\ mainpc = "done"
  /\ nthreads = 2
  /\ wres[1] # EmptyResults /\ wres[2] # EmptyResults
  /\ results.exact # <<>> /\ results.contains # <<>>

\* C16: when every worker has left its loop, one worker has sent
\* threads - 1 stop signals and every other worker has sent none, having
\* left on the stop signal it received.
C16_OneBroadcastOthersReceive ==
  AllExited =>
    \E b \in 1..nthreads :
      /\ wsent[b] = nthreads - 1
      /\ \A w \in (1..nthreads) \ {b} : wsent[w] = 0

\* C17: in first-match mode a worker that has recorded a match stops, so no
\* worker ever holds more than one result.
C17_FirstMatchStopsWorker ==
  search.first =>
    \A w \in 1..nthreads : Len(wres[w].exact) + Len(wres[w].contains) <= 1

(***************************************************************************)
(* Properties of the match predicates.                                     *)
(***************************************************************************)
\* C12: an entry whose path equals an entry of the explicit ignore list, in
\* whatever order the list was given and whatever the hidden flag, is passed
\* over by is_result: it yields no match and is not returned for expansion.
C12_IgnoredEntrySkipped ==
  (ppc = "is_result" /\ ExplicitlyIgnored(pentry)) =>
    (pres.skip /\ pres.result = "none" /\ ~pres.recurse)

\* C14: an entry whose file-type probe fails is not reported as a match and
\* is not returned for expansion, under every type filter.
C14_ProbeFailureNoMatch ==
  (ppc = "is_result" /\ ~Entries[pentry].probe) =>
    (pres.result = "none" /\ ~pres.recurse)

\* C18: in exact-only mode is_result produces no Contains result; an Exact
\* result is produced only for an entry whose folded name equals the query,
\* and for every such entry that passes the ignore, hidden, type and
\* prefix/suffix filters.
C18_ExactOnlyNoContains ==
  (ppc = "is_result" /\ search.exact) =>
    /\ pres.result # "contains"
    /\ pres.result = "exact" => FoldedName(pentry) = search.name
    /\ ( /\ Entries[pentry].probe
         /\ ~ExplicitlyIgnored(pentry) /\ ~HiddenSkipped(pentry)
         /\ PassesTypeFilter(pentry) /\ PassesPrefixSuffix(pentry)
         /\ FoldedName(pentry) = search.name ) => pres.result = "exact"

\* C18 witness: in exact-only mode r/d/ab, whose name contains the query "a",
\* was passed to is_result and gave no result
C18_Witness ==
  /\ ppc = "is_result"
  /\ search.exact
  /\ search.name = <<97>>
  /\ search.starts = <<>> /\ search.ends = <<>> /\ search.ftype = "All"
  /\ pentry = 5
  /\ pres.result = "none"
  /\ pres.recurse

\* C19: when hidden directories are not searched, an entry whose path is one
\* of the hard-coded ignore paths is passed over by is_result: it is neither
\* reported nor returned for expansion.
C19_HardcodedIgnoreSkipped ==
  (ppc = "is_result" /\ ~search.hidden /\ entry_path(pentry) \in ignore_paths) =>
    (pres.result = "none" /\ ~pres.recurse)

\* C20: search_dir of main.rs reports, when a prefix is given, only entries
\* whose name starts with it and, when a suffix is given, only entries whose
\* name ends with it.
C20_PrefixSuffixFilter ==
  (ppc = "search_dir" /\ pres.result # "none") =>
    LET fname == IF margs.case_sensitive THEN Entries[pentry].name
                 ELSE to_ascii_lowercase(Entries[pentry].name)
    IN  /\ margs.starts # <<>> => starts_with(fname, margs.starts)
        /\ margs.ends # <<>> => ends_with(fname, margs.ends)

\* C24: an entry whose base name equals a relative entry of the ignore list
\* is skipped by is_result wherever it lies in the tree.
C24_RelativeIgnoreByBaseName ==
  ( /\ ppc = "is_result"
    /\ \E i \in 1..Len(search.explicit_ignore) :
         /\ Head(search.explicit_ignore[i]) # <<47>>
         /\ search.explicit_ignore[i] = <<Entries[pentry].name>> ) =>
    (pres.skip /\ pres.result = "none" /\ ~pres.recurse)

\* the base name of the entry starts with '.'
DotName(e) == Entries[e].name # <<>> /\ Entries[e].name[1] = 46

\* the entry passes the type, prefix and suffix filters and its folded name
\* is the query (exact-only mode) or holds the query (otherwise)
NameMatches(e) ==
  /\ PassesTypeFilter(e)
  /\ PassesPrefixSuffix(e)
  /\ IF search.exact THEN FoldedName(e) = search.name
     ELSE IsSubstring(search.name, FoldedName(e))

\* C25: when hidden entries are not searched, is_result gives an entry
\* whose base name starts with '.' neither a match nor a recursion; when they
\* are searched, such an entry is reported and returned for recursion by the
\* rules that hold for every other entry.
C25_HiddenEntries ==
  (ppc = "is_result" /\ DotName(pentry)) =>
    IF ~search.hidden
    THEN pres.skip /\ pres.result = "none" /\ ~pres.recurse
    ELSE (Entries[pentry].probe /\ ~ExplicitlyIgnored(pentry)) =>
           /\ ~pres.skip
           /\ pres.recurse = (Entries[pentry].kind = "dir")
           /\ (pres.result # "none") = NameMatches(pentry)

\* with hidden entries searched, the directory r/.h was reported for the
\* query "h" and returned for recursion
C25_Witness ==
  /\ ppc = "is_result"
  /\ search.hidden
  /\ search.name = <<104>>
  /\ pentry = 4
  /\ pres.result = "contains"
  /\ pres.recurse

\* without them, r/.h was skipped under the same query
C25_WitnessSkipped ==
  /\ ppc = "is_result"
  /\ ~search.hidden
  /\ search.name = <<104>>
  /\ pentry = 4
  /\ pres.skip

C27_EmptyQueryMatchesAll ==
  ( /\ ppc = "is_result"
    /\ search.name = <<>>
    /\ Entries[pentry].probe
    /\ ~ExplicitlyIgnored(pentry) /\ ~HiddenSkipped(pentry)
    /\ PassesTypeFilter(pentry) /\ PassesPrefixSuffix(pentry) ) =>
    pres.result # "none"

(***************************************************************************)
(* Properties of the run of main.rs.                                       *)
(***************************************************************************)
\* a root given on the command line does not exist
MainRootMissing ==
  margs.limit /\ \E i \in 1..Len(margs.limit_to_dirs) : margs.limit_to_dirs[i] = 0

\* C11: when a root given on the command line does not exist, the process
\* ends with exit code 1 and has written nothing to standard output,
\* wherever the missing root stands in the list.
C11_MissingRootFatal ==
  (MainRootMissing /\ mstatus # "running") =>
    (mstatus = "exit1" /\ mstdout = <<>>)

(***************************************************************************)
(* Properties of the streamed output of receive_paths.                     *)
(***************************************************************************)
\* receive_paths takes its SuperSimple branch
Streaming == ~search.first /\ search.output = "SuperSimple"

\* C28: in SuperSimple mode every result taken from the channel is written
\* once, behind the results taken before it; the loop ends only when the
\* channel is empty and every task has finished, and all that was written is
\* then on standard output; the process ends with exit code 0 only, with
\* nothing left in the channel, and nothing is written after that.
C28_StreamedOnceInOrder ==
  /\ [][Streaming =>
         /\ Len(rchan') < Len(rchan) =>
              /\ rchan' = Tail(rchan)
              /\ wbuf' = Append(wbuf, PathLine(Head(rchan)))
              /\ stdout' = stdout
         /\ (oppc = "recv" /\ oppc' # "recv") =>
              /\ oppc' = "exit0"
              /\ rchan = <<>> /\ RDisconnected
              /\ stdout' = stdout \o wbuf
         /\ stdout' # stdout => (oppc = "recv" /\ oppc' = "exit0")
         /\ status = "exit0" => stdout' = stdout]_vars
  /\ [](Streaming =>
         /\ status # "returned"
         /\ status = "exit0" => (rchan = <<>> /\ wbuf = <<>> /\ RDisconnected))

\* in SuperSimple mode the process has ended with exit code 0 and at least
\* two paths on standard output
C28_Witness ==
  /\ Streaming
  /\ status = "exit0"
  /\ Len(stdout) >= 2
  /\ \A i \in 1..Len(stdout) : stdout[i][1] = "path"

(***************************************************************************)
(* Properties of the hand-over of directories between the workers.         *)
(***************************************************************************)
\* C22: whenever the counter of working threads reads 0 and the channel
\* holds no path, no worker has received a path that it has not finished
\* expanding.
C22_IdleMeansNoWorkRemains ==
  (working = 0 /\ \A i \in 1..Len(chan) : chan[i] = None)
    => \A w \in 1..nthreads : wpc[w] \notin {"start", "entries"}

\* worker w takes entry e of the directory it expands, and is_result returns
\* e for recursion
Discovers(w, e) ==
  /\ wpc[w] = "entries"
  /\ e \in wtodo[w]
  /\ e \notin wtodo'[w]
  /\ ~is_result(e, search).skip
  /\ is_result(e, search).recurse

\* C23 as stated: a worker that holds no directory of its own keeps the
\* subdirectory it discovers instead of putting it on the channel.  A Worker
\* has no field for such a directory, so it never holds one.
C23_KeepsSubdirectory ==
  [][\A w \in ThreadIds, e \in EntryIds : Discovers(w, e) => chan' = chan]_vars

\* C23 amended: a worker puts every subdirectory it discovers at the back of
\* the channel, and the only directory it expands next is the one it takes
\* from the front of the channel.
C23_PublishesEverySubdirectory ==
  [][\A w \in ThreadIds :
       /\ \A e \in EntryIds : Discovers(w, e) => chan' = Append(chan, e)
       /\ (wpc[w] # "entries" /\ wpc'[w] = "entries") => wpc[w] = "start"
       /\ (wpc[w] # "start" /\ wpc'[w] = "start") =>
            /\ wpc[w] = "recv"
            /\ chan # <<>>
            /\ wdir'[w] = Head(chan)
            /\ chan' = Tail(chan)]_vars

\* a worker that expanded r/d has put r/d/ab on the channel, and the other
\* worker has taken it from there
C23_Witness ==
  /\ nthreads = 2
  /\ wpc[1] = "end" /\ wdir[1] = 2
  /\ wpc[2] = "start" /\ wdir[2] = 5
  /\ enq[5] = 1

(***************************************************************************)
(* Properties of the compile-time sort.                                    *)
(***************************************************************************)
\* C21: sorted returns its argument sorted ascending in byte-lexicographic
\* order: the result holds every string as often as the argument does, and
\* no string of the result is greater than a later one.
C21_SortedAscending ==
  fpc = "sorted" =>
    /\ Len(fret) = Len(farg)
    /\ \A x \in SortStrings : CountIn(fret, x) = CountIn(farg, x)
    /\ \A i, j \in 1..Len(fret) : i < j => bytes_cmp(fret[i], fret[j]) <= 0

\* an array with a duplicate and a proper prefix after the string it
\* prefixes was sorted
C21_Witness ==
  /\ fpc = "sorted"
  /\ farg = << <<97, 98>>, <<97>>, <<97, 98>> >>
  /\ fret = << <<97>>, <<97, 98>>, <<97, 98>> >>

(***************************************************************************)
(* Further properties of the run of main.rs.                               *)
(***************************************************************************)
\* C29: in an unrestricted search of main.rs search_dir is called at most
\* once on every entry and no path is put into the buffers twice, wherever
\* the current directory and the home directory lie.
C29_NothingSearchedTwice ==
  ~margs.limit =>
    \A e \in EntryIds :
      /\ mvisits[e] <= 1
      /\ CountIn(mbuf.exact, e) + CountIn(mbuf.contains, e) <= 1

\* C30: in first-match mode at most one path is written to standard output,
\* whatever the number of threads that find a match.
C30_FirstPrintsOnePath ==
  margs.first =>
    Cardinality({i \in 1..Len(mstdout) : mstdout[i][1] = "path"}) <= 1

\* in first-match mode two threads found a match each: thread 1 printed its
\* path and ended the process while thread 2 waited for the lock
C30_Witness ==
  /\ margs.first
  /\ rthreads = 2
  /\ mstatus = "exit0"
  /\ mpc[1] = "exit" /\ mlock = 1
  /\ mpc[2] = "lock" /\ mheld[2] # 0 /\ mheld[2] # mheld[1]
  /\ mstdout = << <<"path", mheld[1]>> >>

(***************************************************************************)
(* Properties of the stop broadcast and of the counter of the pool.        *)
(***************************************************************************)
\* the number of None sent by the workers 1..n
RECURSIVE SentNone(_)
SentNone(n) == IF n = 0 THEN 0 ELSE wsent[n] + SentNone(n - 1)

\* the workers that have entered the loop that sends None
Broadcasters == {w \in 1..nthreads : wpc[w] = "bcast" \/ wsent[w] > 0}

\* C31: at most one worker performs the stop broadcast; when every worker
\* has left its loop, threads - 1 None have been sent in all and none of
\* them is left in the channel.
C31_SingleBroadcast ==
  /\ Cardinality(Broadcasters) <= 1
  /\ AllExited =>
       /\ SentNone(nthreads) = nthreads - 1
       /\ \A i \in 1..Len(chan) : chan[i] # None

\* the workers that have run start_work and not yet end_work
Expanding == {w \in 1..nthreads : wpc[w] \in {"entries", "end"}}

\* C35: the counter equals the number of workers between start_work and
\* end_work; so it never exceeds the number of workers, and it is 0 when
\* every worker has left its loop.
C35_CounterCountsExpanding ==
  /\ working = Cardinality(Expanding)
  /\ working <= nthreads
  /\ AllExited => working = 0

\* two workers are between start_work and end_work and the counter is 2
C35_Witness ==
  /\ nthreads = 2
  /\ wpc[1] = "entries" /\ wpc[2] = "end"
  /\ working = 2

(***************************************************************************)
(* Further properties of the scoped-task engine.                           *)
(***************************************************************************)
\* C32: Search::search never comes to rest before the process has ended or
\* the search has returned: while it runs, some thread can take a step.
C32_NoDeadlock ==
  status = "running" => ENABLED EngineNext

\* receive_paths takes its collecting branch
Collecting == ~search.first /\ search.output # "SuperSimple"

\* C33: in the collecting branch every result taken from the channel is put
\* once at the back of the buffer of its tag, and the buffers change in no
\* other way; receive_paths returns only when the channel is empty and every
\* task, nested ones included, has finished and dropped its Sender; so when
\* the search has returned nothing that was sent is left in the channel.
C33_CollectedOnceByTag ==
  /\ [][Collecting =>
         /\ Len(rchan') < Len(rchan) =>
              /\ rchan' = Tail(rchan)
              /\ buffers' =
                   IF Head(rchan).tag = "exact"
                   THEN [buffers EXCEPT !.exact = Append(@, Head(rchan).entry)]
                   ELSE [buffers EXCEPT !.contains = Append(@, Head(rchan).entry)]
         /\ buffers' # buffers => Len(rchan') < Len(rchan)
         /\ (status = "running" /\ status' = "returned") =>
              /\ rchan = <<>> /\ RDisconnected
              /\ \A d \in EntryIds : jstate[d] # "none" => jstate[d] = "done"]_vars
  /\ [](Collecting /\ status = "returned" =>
         rchan = <<>> /\ RDisconnected /\ \A d \in EntryIds : jtodo[d] = {})

\* the search of r has returned with r/a and r/d/ab/a in the Exact buffer and
\* r/d/ab in the Contains buffer
C33_Witness ==
  /\ Collecting
  /\ status = "returned"
  /\ SeqToSet(buffers.exact) = {3, 6}
  /\ 5 \in SeqToSet(buffers.contains)

(***************************************************************************)
(* Properties of the highlight of print.rs.                                *)
(***************************************************************************)
\* the file name passes the prefix, query and suffix tests of is_result
HighlightFiltersPass ==
  LET sname == IF farg.case_sensitive THEN farg.fname
               ELSE to_ascii_lowercase(farg.fname)
  IN  /\ farg.starts = <<>> \/ starts_with(sname, farg.starts)
      /\ farg.ends = <<>> \/ ends_with(sname, farg.ends)
      /\ IsSubstring(farg.name, sname)

\* C34: for a file name that passes the prefix, query and suffix tests the
\* highlight ranges of print_with_highlight are ordered,
\* starts_idx.1 <= name_idx.0 <= name_idx.1 <= ends_idx.0 <= ends_idx.1 <=
\* length of the name, and no slice of the name panics.
C34_HighlightRangesOrdered ==
  (fpc = "print_with_highlight" /\ HighlightFiltersPass) =>
    /\ fret.starts_idx[2] <= fret.name_idx[1]
    /\ fret.name_idx[1] <= fret.name_idx[2]
    /\ fret.name_idx[2] <= fret.ends_idx[1]
    /\ fret.ends_idx[1] <= fret.ends_idx[2]
    /\ fret.ends_idx[2] <= Len(farg.fname)
    /\ ~fret.panic

(***************************************************************************)
(* Properties of the Herd.                                                 *)
(***************************************************************************)
\* how often Bump b is held: by the Vec, by a live Member, by a Member
\* that is being dropped
RECURSIVE HeldBy(_, _)
HeldBy(b, n) ==
  IF n = 0 THEN CountIn(herd, b)
  ELSE CountIn(members[n], b) + (IF harena[n] = b THEN 1 ELSE 0) + HeldBy(b, n - 1)

\* C36: every Bump that was created is held exactly once, by the Vec of the
\* Herd or by one Member, so no two live Members hold the same Bump and none
\* is lost or duplicated; a Bump is created only when the Vec holds none, so
\* a Bump that was given back is handed out again before a new one is made.
C36_BumpsHeldOnce ==
  /\ [](\A b \in 1..MaxMembers :
          HeldBy(b, MaxThreads) = IF b <= hcreated THEN 1 ELSE 0)
  /\ [][/\ hcreated' # hcreated => (herd = <<>> /\ hcreated' = hcreated + 1)
        /\ \A t \in ThreadIds :
             (Len(members'[t]) > Len(members[t]) /\ herd # <<>>) =>
               /\ members'[t] = Append(members[t], herd[Len(herd)])
               /\ herd' = SubSeq(herd, 1, Len(herd) - 1)]_vars

\* thread 1 took Bumps 1 and 2, gave Bump 1 back and took it again while
\* thread 2 holds none: two Bumps exist and none is in the Vec
C36_Witness ==
  /\ members[1] = <<2, 1>>
  /\ members[2] = <<>>
  /\ herd = <<>>
  /\ hcreated = 2
  /\ hlock = 0

====
